---- MODULE Spec2Model ----
(***************************************************************************)
(* A model of the orchestration core of pyrogram's asyncio Client          *)
(* (pyrogram/client/client.py): media-session set-up and chunked download  *)
(* (get_file), chunked upload (save_file), worker shutdown (stop), the     *)
(* update pipeline (updates_worker, fetch_peers) and the interactive       *)
(* authorization flow (authorize_user).                                    *)
(*                                                                         *)
(* Every coroutine is a process whose position is a pc value; one action   *)
(* is the code that runs between two suspension points (await).            *)
(***************************************************************************)
EXTENDS Integers, Sequences, FiniteSets, TLC

\* ------------------------------------------------------------------ bounds
MaxCalls == 2       \* concurrent get_file calls
MaxDc == 2          \* data-center ids 1..MaxDc
MaxChunks == 2      \* the server ends a file after at most this many chunks
MaxFileSize == 6    \* size of an uploaded file, in bytes of the model
MaxPeerId == 2      \* raw user / chat / channel ids 1..MaxPeerId
MaxBatch == 2       \* records in a batch passed to fetch_peers
MaxPushes == 2      \* envelopes the transport pushes in one run
UPDATES_WORKERS == 2    \* Client.UPDATES_WORKERS (set in BaseClient)
DOWNLOAD_WORKERS == 2   \* Client.DOWNLOAD_WORKERS (set in BaseClient)
MaxErrors == 1      \* answers other than a result the network gives while authorizing
MaxWait == 2        \* seconds carried by a FloodWait
MaxPending == 1     \* jobs and envelopes pending in a queue when stop() is called
MaxUserId == 2      \* user ids an authorization may carry
MaxReuploads == 2   \* CdnFileReuploadNeeded answers one download may get
MaxStartCallers == 2 \* start() calls that may overlap
MaxStarts == 2      \* start() calls on one client
MaxMsgId == 2       \* message ids and dates a reply may carry
MaxItems == 2       \* bytes and runs of zeros a byte string is made of
MaxSends == 2       \* SendMedia requests a send_video call may send

\* --------------------------------------------------------------- constants
None == 0           \* Python's None for ids and references
Job == 1            \* the first download job on download_queue (None is the sentinel)
Limit == 2          \* bytes per download chunk (limit = 1024 * 1024 in the code)
PartSize == 2       \* bytes per upload chunk (part_size = 512 * 1024 in the code)
BigLimit == 4       \* big-file threshold (10 * 1024 * 1024 in the code)
QueueCap == 16      \* asyncio.Queue(16)
Poison == -1        \* the None put on the upload queue
NoneHash == -1      \* access_hash is None
Cred == 7           \* an access_hash value
Callable == -1      \* a callback passed where a value is expected
Val == 1            \* a non-empty string value
Empty == 2          \* the empty string
UserId == 1         \* r.user.id of the authorized user

Callers == 1..MaxCalls
DCs == 1..MaxDc
Byte == {0, 1}

VARIABLES
    storage_dc_id,          \* self.storage.dc_id
    media_sessions,         \* self.media_sessions: dc id -> session (None if absent)
    media_sessions_lock,    \* self.media_sessions_lock: None or the holding call
    sessions,               \* every Session object get_file can construct
    gf_active,              \* the get_file calls that are made in this run
    net_data,               \* whether the files served by the network carry data
    gf_pc,                  \* position of each get_file call
    gf_dc,                  \* dc_id argument
    gf_progress,            \* whether a progress callback was passed
    gf_session,             \* local: session
    gf_cdn,                 \* local: cdn_session
    gf_r,                   \* local: r.dc_id of a FileCdnRedirect (None otherwise)
    gf_offset,              \* local: offset, in chunks (offset / limit)
    gf_chunk,               \* local: chunk last received (CDN mode: as received)
    gf_file,                \* the temp file: [exists, size]
    gf_result,              \* "pending", "path", "empty" (""), "raised"
    gf_mismatch,            \* the call saw a CDN hash mismatch
    gf_requests             \* history: the chunk and re-upload requests sent, with their
                            \* answers, and the exception a progress callback raised

gfVars == <<storage_dc_id, media_sessions, media_sessions_lock, sessions,
            gf_active, net_data,
            gf_pc, gf_dc, gf_progress, gf_session, gf_cdn, gf_r, gf_offset,
            gf_chunk, gf_file, gf_result, gf_mismatch, gf_requests>>

VARIABLES
    sf_pc,                  \* position of the save_file call
    sf_file_size,           \* os.path.getsize(path), in bytes of the model
    sf_is_missing_part,     \* file_id was passed (resume one part)
    sf_file_part,           \* local: file_part
    sf_progress,            \* whether a progress callback was passed
    sf_pool,                \* local: pool, per session [started, stopped]
    sf_i,                   \* index of the `for session in pool` loops
    sf_queue,               \* local: queue (part index of a chunk request, Poison for None)
    sf_nones,               \* None tokens put by the finally block
    sf_waiting,             \* worker tasks suspended in queue.get()
    sf_sending,             \* worker tasks suspended in session.send(data)
    sf_finished,            \* worker tasks that returned
    sf_send_failed,         \* some session.send(data) of a worker raised
    sf_outcome,             \* how save_file ends
    sf_trace                \* locals and history of the call: file_id, md5_sum,
                            \* the requests put on the queue, the f.read calls,
                            \* the progress calls and the value returned

sfVars == <<sf_pc, sf_file_size, sf_is_missing_part, sf_file_part, sf_progress,
            sf_pool, sf_i, sf_queue, sf_nones, sf_waiting, sf_sending, sf_finished,
            sf_send_failed, sf_outcome, sf_trace>>

VARIABLES
    storage_peers,          \* the peers table of self.storage
    fp_pc,                  \* position of a stand-alone fetch_peers call
    fp_peers,               \* its argument
    fp_result,              \* its return value
    updates_queue,          \* self.updates_queue
    dispatcher_queue,       \* self.dispatcher.updates_queue
    up_pushes,              \* envelopes pushed by the transport so far
    up_sentinels,           \* None sentinels put on updates_queue so far
    uw_pc,                  \* position of each updates_worker task
    uw_env,                 \* local: updates
    uw_idx,                 \* index of the update the `for` loop is at
    uw_is_min,              \* local: is_min
    uw_users,               \* local: users
    uw_chats,               \* local: chats
    uw_logged,              \* exceptions the task has logged (log.error)
    up_trace                \* history of the workers: updates carried by the envelopes
                            \* taken, GetDifference requests and answers, the
                            \* GetChannelDifference requests, and for each tuple
                            \* of dispatcher_queue its envelope and the answer
                            \* that preceded it

upVars == <<storage_peers, fp_pc, fp_peers, fp_result, updates_queue, dispatcher_queue,
            up_pushes, up_sentinels, uw_pc, uw_env, uw_idx, uw_is_min, uw_users,
            uw_chats, uw_logged, up_trace>>

VARIABLES
    is_started,             \* self.is_started
    takeout_id,             \* self.takeout_id is set
    stop_pc,                \* position of the stop() call
    stop_i,                 \* index of the task stop() is awaiting
    download_queue,         \* self.download_queue
    dl_sentinels,           \* None sentinels put on download_queue so far
    dw_pc,                  \* position of each download_worker task
    dw_handled              \* jobs each download_worker task has finished

stVars == <<is_started, takeout_id, stop_pc, stop_i, download_queue, dl_sentinels,
            dw_pc, dw_handled>>

VARIABLES
    storage_user_id,        \* self.storage.user_id (None until authorized)
    storage_is_bot,         \* self.storage.is_bot
    au_pc,                  \* position of the authorize_user() call
    au_given,               \* how each value was passed to Client(): none/fixed/callable
    au_force_sms,           \* self.force_sms
    au_self,                \* self.phone_number, phone_code, first_name, last_name,
                            \* password, recovery_code and the data center of self.session
    au_local,               \* locals: the four *_invalid_raises flags, phone_registered,
                            \* terms_of_service
    au_request,             \* the request awaiting its answer (the last one sent)
    au_reply,               \* the last answer of the network
    au_errors,              \* answers other than a result so far
    au_log,                 \* counters: requests sent, prompts shown, callbacks called,
                            \* messages printed, sleeps and seconds slept
    au_mark,                \* au_log, au_request and au_self when the last answer arrived
    au_error                \* the exception authorize_user() raised

auVars == <<storage_user_id, storage_is_bot, au_pc, au_given, au_force_sms, au_self, au_local, au_request,
            au_reply, au_errors, au_log, au_mark, au_error>>

VARIABLES
    storage_usernames,      \* the username index of the peers table: key and row id
    storage_phones,         \* the phone number index of the peers table
    rp_pc,                  \* position of the resolve_peer() call
    rp_peer_id,             \* local: peer_id
    rp_requests,            \* the requests resolve_peer() has sent
    rp_retries,             \* cache lookups made after a request returned
    rp_result,              \* the input peer resolve_peer() returned
    rp_error,               \* the exception resolve_peer() raised
    pi_pc,                  \* position of the peer id conversions
    pi_in,                  \* two peer records and an access credential
    pi_out                  \* their stored ids, input peers and ids read back

rpVars == <<storage_usernames, storage_phones, rp_pc, rp_peer_id, rp_requests, rp_retries,
            rp_result, rp_error>>
piVars == <<pi_pc, pi_in, pi_out>>

VARIABLES
    sd_pc,                  \* position of a stand-alone send() call
    sd_r                    \* the response session.send() gave it

sdVars == <<sd_pc, sd_r>>

VARIABLES
    self_session,           \* self.session, the primary session: [created, started]
    start_pc,               \* position of the start() call
    start_error             \* the exception start() raised

startVars == <<self_session, start_pc, start_error>>

VARIABLES
    sv_pc,                  \* position of the send_video() call
    sv_size,                \* size of the video file
    sv_thumb,               \* local: thumb
    sv_file,                \* local: file
    sv_requests,            \* SendMedia requests sent so far
    sv_result               \* what send_video() returned or raised

svVars == <<sv_pc, sv_size, sv_thumb, sv_file, sv_requests, sv_result>>

VARIABLES
    dw_packet,              \* local of each download_worker task: packet
    dl_jobs                 \* the jobs: done (set() calls on the gate), path (the result
                            \* cell path[0]) and, history, what get_file and the move did

dwVars == <<dw_packet, dl_jobs>>

VARIABLES
    fi_pc,                  \* position of the file id conversion
    fi_in,                  \* the two byte strings given to encode
    fi_out                  \* what encode and decode made of them

fiVars == <<fi_pc, fi_in, fi_out>>

VARIABLES
    sm_pc,                  \* position of the send_message() call
    sm_chat_id,             \* its argument chat_id
    sm_peer,                \* the peer the SendMessage request carries
    sm_r,                   \* r, what the request returned
    sm_result               \* what send_message() returned or raised

smVars == <<sm_pc, sm_chat_id, sm_peer, sm_r, sm_result>>

VARIABLES
    start_calls             \* history: start() calls made on the client

scVars == <<start_calls>>

VARIABLES
    gf_unverified           \* history, per get_file caller: the bytes written to the
                            \* temp file that lay in no sub-range whose hash was compared

cvVars == <<gf_unverified>>

VARIABLES
    o_pc,                   \* position of each of the overlapping start() calls
    o_error,                \* the exception each of them raised
    o_created,              \* history: the call constructed a primary Session
    o_pooled                \* history: the call created the worker tasks

ovVars == <<o_pc, o_error, o_created, o_pooled>>

\* the groups added after the download worker's
tailVars == <<fiVars, smVars, scVars, cvVars, ovVars>>

\* the groups added last, left alone by the subsystems above
etcVars == <<sdVars, startVars, svVars, dwVars, tailVars>>

vars == <<gfVars, sfVars, upVars, stVars, auVars, rpVars, piVars, etcVars>>
notGf == <<sfVars, upVars, stVars, auVars, rpVars, piVars, etcVars>>
notSf == <<gfVars, upVars, stVars, auVars, rpVars, piVars, etcVars>>
notUp == <<gfVars, sfVars, stVars, auVars, rpVars, piVars, etcVars>>
notAu == <<gfVars, sfVars, upVars, stVars, rpVars, piVars, etcVars>>
notRp == <<gfVars, sfVars, stVars, auVars, piVars, etcVars>>
notPi == <<gfVars, sfVars, upVars, stVars, auVars, rpVars, etcVars>>
notFi == <<gfVars, sfVars, upVars, stVars, auVars, rpVars, piVars, sdVars, startVars,
           svVars, dwVars, smVars, scVars, cvVars, ovVars>>
\* get_file's CDN verification is recorded in cvVars
notGfCv == <<sfVars, upVars, stVars, auVars, rpVars, piVars, sdVars, startVars, svVars,
             dwVars, fiVars, smVars, scVars, ovVars>>
\* start() calls that overlap share the flag, the session and the worker tasks
auNoUser == <<storage_is_bot, au_pc, au_given, au_force_sms, au_self, au_local, au_request,
              au_reply, au_errors, au_log, au_mark, au_error>>
notOv == <<gfVars, sfVars, auNoUser, rpVars, piVars, sdVars, svVars, dwVars, fiVars, smVars,
           scVars, cvVars>>
\* send_message() calls resolve_peer(), which may write the peer cache
notSm == <<gfVars, sfVars, stVars, auVars, piVars, sdVars, startVars, svVars, dwVars,
           fiVars, scVars, cvVars, ovVars>>
notSd == <<gfVars, sfVars, stVars, auVars, rpVars, piVars, startVars, svVars, dwVars, tailVars>>

\* ------------------------------------------------------------ pure helpers
\* every byte string of length 0..n
RECURSIVE SeqsUpTo(_, _)
SeqsUpTo(S, n) ==
    IF n = 0 THEN {<<>>}
    ELSE LET shorter == SeqsUpTo(S, n - 1)
         IN  shorter \cup {Append(s, b) : s \in {t \in shorter : Len(t) = n - 1}, b \in S}

Min(a, b) == IF a < b THEN a ELSE b

\* Python slice s[lo:hi] for 0 <= lo <= hi (0-based, end exclusive, clamped)
Slice(s, lo, hi) ==
    LET h == Min(hi, Len(s))
    IN  IF lo >= h THEN <<>> ELSE SubSeq(s, lo + 1, h)

\* sha256(...).digest(): a collision-free digest of a byte string
RECURSIVE sha256(_)
sha256(s) ==
    IF s = <<>> THEN 1
    ELSE 3 * sha256(SubSeq(s, 1, Len(s) - 1)) + s[Len(s)]

\* AES.ctr256_decrypt(chunk, key, iv[:-4] + (offset // 16)): the key stream
\* depends on the counter, i.e. on the offset, and on the position
ctr256_decrypt(chunk, offset) ==
    [i \in 1..Len(chunk) |-> (chunk[i] + offset + i) % 2]

Chunks == SeqsUpTo(Byte, Limit)
Digests == {sha256(s) : s \in Chunks}
\* an element of the vector returned by upload.GetCdnFileHashes
FileHash == [limit : 1..Limit, hash : Digests]
HashLists == SeqsUpTo(FileHash, Limit)

\* client.py 1668-1669: the bytes of decrypted_chunk outside every
\* cdn_chunk = decrypted_chunk[h.limit * i: h.limit * (i + 1)] of enumerate(hashes)
Unhashed(hashes, decrypted_chunk) ==
    Cardinality({k \in 0..(Len(decrypted_chunk) - 1) :
                    \A i \in 0..(Len(hashes) - 1) :
                        ~(hashes[i + 1].limit * i <= k /\ k < hashes[i + 1].limit * (i + 1))})

\* client.py 1668-1670: the assert passes for every (i, h) of enumerate(hashes)
HashesOk(hashes, decrypted_chunk) ==
    \A i \in 0..(Len(hashes) - 1) :
        LET h == hashes[i + 1]
            cdn_chunk == Slice(decrypted_chunk, h.limit * i, h.limit * (i + 1))
        IN  h.hash = sha256(cdn_chunk)

NoFile == [exists |-> FALSE, size |-> 0]

\* --------------------------------------------------------------- get_file
\* `async with self.media_sessions_lock` can be entered
LockFree_Unguarded == TRUE
LockFree == media_sessions_lock = None

\* the Session objects a call can construct: its media and its CDN session
MediaId(c) == 2 * c - 1
CdnId(c) == 2 * c
SessionIds == 1..(2 * MaxCalls)
NoSession == [created |-> FALSE, dc |-> None, is_cdn |-> FALSE, started |-> FALSE,
              authorized |-> FALSE]

\* Session(self, dc, key, is_media=True[, is_cdn=True])
NewSession(id, dc, cdn, own_key) ==
    [sessions EXCEPT ![id] = [created |-> TRUE, dc |-> dc, is_cdn |-> cdn,
                              started |-> FALSE, authorized |-> own_key]]

\* return from get_file: locals are dead afterwards
GfReturn(c, res, lock) ==
    /\ gf_pc' = [gf_pc EXCEPT ![c] = "done"]
    /\ gf_result' = [gf_result EXCEPT ![c] = res]
    /\ gf_chunk' = [gf_chunk EXCEPT ![c] = <<>>]
    /\ media_sessions_lock' = lock

\* `except Exception` of client.py 1690-1699: os.remove(file_name); return ""
GfFail(c) ==
    /\ GfReturn(c, "empty", IF media_sessions_lock = c THEN None ELSE media_sessions_lock)
    /\ gf_file' = [gf_file EXCEPT ![c] = NoFile]

\* 1690-1699: `except Exception as e` catches StopTransmission too (it derives from
\* StopAsyncIteration); isinstance(e, Client.StopTransmission) only skips log.error
OnException(c, e) == GfFail(c)
\* what a progress callback may raise
ProgressRaises == {"StopTransmission", "error"}

\* an exception raised inside the lock block of 1501-1532 leaves get_file
GfRaise(c) ==
    /\ GfReturn(c, "raised", None)
    /\ UNCHANGED gf_file

\* a download worker (or a caller) enters get_file
GetFileCall(c) ==
    /\ gf_pc[c] = "idle"
    /\ c \in gf_active
    /\ \E dc \in DCs, p \in (IF net_data THEN BOOLEAN ELSE {FALSE}) :
        /\ gf_dc' = [gf_dc EXCEPT ![c] = dc]
        /\ gf_progress' = [gf_progress EXCEPT ![c] = p]
    /\ gf_pc' = [gf_pc EXCEPT ![c] = "lock"]
    /\ UNCHANGED <<storage_dc_id, gf_active, net_data, media_sessions, media_sessions_lock, sessions,
                   gf_session, gf_cdn, gf_r, gf_offset, gf_chunk, gf_file,
                   gf_result, gf_mismatch, gf_requests>>
    /\ UNCHANGED notGf

\* 1501-1505, 1528: take the lock, look the session up, construct it if absent
GetFileLookup(c) ==
    /\ gf_pc[c] = "lock"
    /\ LockFree
    /\ LET session == media_sessions[gf_dc[c]]
       IN  IF session # None
           THEN /\ gf_session' = [gf_session EXCEPT ![c] = session]
                /\ gf_pc' = [gf_pc EXCEPT ![c] = "first"]
                /\ media_sessions_lock' = None
                /\ UNCHANGED sessions
           ELSE IF gf_dc[c] # storage_dc_id
           THEN /\ gf_pc' = [gf_pc EXCEPT ![c] = "export"]
                /\ media_sessions_lock' = c
                /\ UNCHANGED <<sessions, gf_session>>
           ELSE /\ sessions' = NewSession(MediaId(c), gf_dc[c], FALSE, TRUE)
                /\ gf_session' = [gf_session EXCEPT ![c] = MediaId(c)]
                /\ gf_pc' = [gf_pc EXCEPT ![c] = "start"]
                /\ media_sessions_lock' = c
    /\ UNCHANGED <<storage_dc_id, gf_active, net_data, media_sessions, gf_dc, gf_progress, gf_cdn, gf_r,
                   gf_offset, gf_chunk, gf_file, gf_result, gf_mismatch, gf_requests>>
    /\ UNCHANGED notGf

\* 1506-1510: await self.send(ExportAuthorization)
GetFileExport(c) ==
    /\ gf_pc[c] = "export"
    /\ \/ /\ gf_pc' = [gf_pc EXCEPT ![c] = "authkey"]
          /\ UNCHANGED <<media_sessions_lock, gf_result, gf_chunk, gf_file>>
       \/ GfRaise(c)
    /\ UNCHANGED <<storage_dc_id, gf_active, net_data, media_sessions, sessions, gf_dc, gf_progress,
                   gf_session, gf_cdn, gf_r, gf_offset, gf_mismatch, gf_requests>>
    /\ UNCHANGED notGf

\* 1512-1515: await Auth(self, dc_id).create(), then Session(...)
GetFileAuthKey(c) ==
    /\ gf_pc[c] = "authkey"
    /\ \/ /\ sessions' = NewSession(MediaId(c), gf_dc[c], FALSE, FALSE)
          /\ gf_session' = [gf_session EXCEPT ![c] = MediaId(c)]
          /\ gf_pc' = [gf_pc EXCEPT ![c] = "start"]
          /\ UNCHANGED <<media_sessions_lock, gf_result, gf_chunk, gf_file>>
       \/ /\ GfRaise(c)
          /\ UNCHANGED <<sessions, gf_session>>
    /\ UNCHANGED <<storage_dc_id, gf_active, net_data, media_sessions, gf_dc, gf_progress, gf_cdn, gf_r,
                   gf_offset, gf_mismatch, gf_requests>>
    /\ UNCHANGED notGf

\* 1517-1519 and 1530-1532: await session.start(); media_sessions[dc_id] = session
GetFileStart(c) ==
    /\ gf_pc[c] = "start"
    /\ \/ /\ sessions' = [sessions EXCEPT ![gf_session[c]].started = TRUE]
          /\ media_sessions' = [media_sessions EXCEPT ![gf_dc[c]] = gf_session[c]]
          /\ IF gf_dc[c] # storage_dc_id
             THEN /\ gf_pc' = [gf_pc EXCEPT ![c] = "import"]
                  /\ UNCHANGED media_sessions_lock
             ELSE /\ gf_pc' = [gf_pc EXCEPT ![c] = "first"]
                  /\ media_sessions_lock' = None
          /\ UNCHANGED <<gf_result, gf_chunk, gf_file>>
       \/ /\ GfRaise(c)
          /\ UNCHANGED <<sessions, media_sessions>>
    /\ UNCHANGED <<storage_dc_id, gf_active, net_data, gf_dc, gf_progress, gf_session, gf_cdn, gf_r,
                   gf_offset, gf_mismatch, gf_requests>>
    /\ UNCHANGED notGf

\* 1521-1526: await session.send(ImportAuthorization)
GetFileImport(c) ==
    /\ gf_pc[c] = "import"
    /\ \/ /\ sessions' = [sessions EXCEPT ![gf_session[c]].authorized = TRUE]
          /\ gf_pc' = [gf_pc EXCEPT ![c] = "first"]
          /\ media_sessions_lock' = None
          /\ UNCHANGED <<gf_result, gf_chunk, gf_file>>
       \/ /\ GfRaise(c)
          /\ UNCHANGED sessions
    /\ UNCHANGED <<storage_dc_id, gf_active, net_data, media_sessions, gf_dc, gf_progress, gf_session,
                   gf_cdn, gf_r, gf_offset, gf_mismatch, gf_requests>>
    /\ UNCHANGED notGf

gfSetup == <<storage_dc_id, media_sessions, sessions, gf_active, net_data, gf_dc,
             gf_progress, gf_session>>

\* the temp file of `with tempfile.NamedTemporaryFile("wb", delete=False) as f`
Created(c) == [gf_file EXCEPT ![c] = [exists |-> TRUE, size |-> 0]]
\* f.write(data)
Written(file, c, data) == [file EXCEPT ![c].size = @ + Len(data)]

\* the plain loop, were it to end at the first chunk shorter than limit
PlainChunk_StopsAtShort(c, chunk, file) ==
    IF Len(chunk) < Limit
    THEN /\ GfReturn(c, "path", media_sessions_lock)
         /\ gf_file' = Written(file, c, chunk)
         /\ UNCHANGED gf_offset
    ELSE /\ gf_file' = Written(file, c, chunk)
         /\ gf_offset' = [gf_offset EXCEPT ![c] = @ + 1]
         /\ gf_pc' = [gf_pc EXCEPT ![c] = IF gf_progress[c] THEN "progress" ELSE "next"]
         /\ UNCHANGED <<gf_result, gf_chunk, media_sessions_lock>>

\* 1580-1598: one pass of the plain loop over a received upload.File
PlainChunk(c, chunk, file) ==
    IF chunk = <<>>
    THEN /\ GfReturn(c, "path", media_sessions_lock)
         /\ gf_file' = file
         /\ UNCHANGED gf_offset
    ELSE /\ gf_file' = Written(file, c, chunk)
         /\ gf_offset' = [gf_offset EXCEPT ![c] = @ + 1]
         /\ gf_pc' = [gf_pc EXCEPT ![c] = IF gf_progress[c] THEN "progress" ELSE "next"]
         /\ UNCHANGED <<gf_result, gf_chunk, media_sessions_lock>>

\* session.send(functions.upload.<fn>(..., offset=offset, ...)) and what came back
\* for it; `via` is the session that sent it (cdn_session for GetCdnFile, session
\* otherwise), `written` what the temp file held when the request was sent.
\* `await progress(...)` is recorded the same way when it raises.
Answered(c, fn, kind, chunk) ==
    [gf_requests EXCEPT ![c] =
        Append(@, [fn |-> fn, offset |-> gf_offset[c] * Limit, r |-> kind,
                   via |-> IF fn = "GetCdnFile" THEN gf_cdn[c]
                           ELSE IF fn = "progress" THEN None ELSE gf_session[c],
                   bytes |-> Len(chunk), written |-> gf_file[c].size])]
\* the re-upload requests the call has sent
Reuploads(c) ==
    Cardinality({i \in 1..Len(gf_requests[c]) : gf_requests[c][i].fn = "ReuploadCdnFile"})

\* chunks the server may answer with at the current offset
TerseChunks == {<<>>, <<0>>}
ServerChunks(c) ==
    IF gf_offset[c] >= MaxChunks THEN {<<>>}
    ELSE IF net_data THEN Chunks ELSE TerseChunks

\* 1567-1576, 1608: the first upload.GetFile request and the dispatch on its answer
GetFileFirst(c) ==
    /\ gf_pc[c] = "first"
    /\ \/ /\ \E chunk \in ServerChunks(c) :
                /\ PlainChunk(c, chunk, Created(c))
                /\ gf_requests' = Answered(c, "GetFile", "File", chunk)
          /\ UNCHANGED gf_r
       \/ /\ \E rdc \in DCs : gf_r' = [gf_r EXCEPT ![c] = rdc]
          /\ gf_pc' = [gf_pc EXCEPT ![c] = "cdnlock"]
          /\ gf_requests' = Answered(c, "GetFile", "FileCdnRedirect", <<>>)
          /\ UNCHANGED <<gf_result, gf_chunk, gf_file, gf_offset, media_sessions_lock>>
       \/ /\ GfFail(c)
          /\ gf_requests' = Answered(c, "GetFile", "error", <<>>)
          /\ UNCHANGED <<gf_r, gf_offset>>
    /\ UNCHANGED <<gfSetup, gf_cdn, gf_mismatch>>
    /\ UNCHANGED notGf

\* 1590-1598: await progress(...) in the plain loop
GetFileProgress(c) ==
    /\ gf_pc[c] = "progress"
    /\ \/ /\ gf_pc' = [gf_pc EXCEPT ![c] = "next"]
          /\ UNCHANGED <<gf_result, gf_chunk, gf_file, media_sessions_lock, gf_requests>>
       \/ \E e \in ProgressRaises :
            /\ OnException(c, e)
            /\ gf_requests' = Answered(c, "progress", e, <<>>)
    /\ UNCHANGED <<gfSetup, gf_cdn, gf_r, gf_offset, gf_mismatch>>
    /\ UNCHANGED notGf

\* 1600-1606 then 1581-1598: the next upload.GetFile request of the plain loop
GetFileNext(c) ==
    /\ gf_pc[c] = "next"
    /\ \/ \E chunk \in ServerChunks(c) :
            /\ PlainChunk(c, chunk, gf_file)
            /\ gf_requests' = Answered(c, "GetFile", "File", chunk)
       \/ /\ GfFail(c)
          /\ gf_requests' = Answered(c, "GetFile", "error", <<>>)
          /\ UNCHANGED gf_offset
    /\ UNCHANGED <<gfSetup, gf_cdn, gf_r, gf_mismatch>>
    /\ UNCHANGED notGf

\* 1609-1616: take the lock again and look the CDN session up
GetFileCdnLookup(c) ==
    /\ gf_pc[c] = "cdnlock"
    /\ LockFree
    /\ LET cdn_session == media_sessions[gf_r[c]]
       IN  IF cdn_session # None
           THEN /\ gf_cdn' = [gf_cdn EXCEPT ![c] = cdn_session]
                /\ media_sessions_lock' = None
                /\ gf_file' = Created(c)
                /\ gf_pc' = [gf_pc EXCEPT ![c] = "cdnget"]
           ELSE /\ media_sessions_lock' = c
                /\ gf_pc' = [gf_pc EXCEPT ![c] = "cdnauthkey"]
                /\ UNCHANGED <<gf_cdn, gf_file>>
    /\ UNCHANGED <<gfSetup, gf_r, gf_offset, gf_chunk, gf_result, gf_mismatch, gf_requests>>
    /\ UNCHANGED notGf

\* 1613-1616: await Auth(self, r.dc_id).create(), then Session(..., is_cdn=True)
GetFileCdnAuthKey(c) ==
    /\ gf_pc[c] = "cdnauthkey"
    /\ \/ /\ sessions' = NewSession(CdnId(c), gf_r[c], TRUE, TRUE)
          /\ gf_cdn' = [gf_cdn EXCEPT ![c] = CdnId(c)]
          /\ gf_pc' = [gf_pc EXCEPT ![c] = "cdnstart"]
          /\ UNCHANGED <<gf_result, gf_chunk, gf_file, media_sessions_lock>>
       \/ /\ GfFail(c)
          /\ UNCHANGED <<sessions, gf_cdn>>
    /\ UNCHANGED <<storage_dc_id, gf_active, net_data, media_sessions, gf_dc, gf_progress, gf_session,
                   gf_r, gf_offset, gf_mismatch, gf_requests>>
    /\ UNCHANGED notGf

\* 1618-1624: await cdn_session.start(); media_sessions[r.dc_id] = cdn_session
GetFileCdnStart(c) ==
    /\ gf_pc[c] = "cdnstart"
    /\ \/ /\ sessions' = [sessions EXCEPT ![gf_cdn[c]].started = TRUE]
          /\ media_sessions' = [media_sessions EXCEPT ![gf_r[c]] = gf_cdn[c]]
          /\ media_sessions_lock' = None
          /\ gf_file' = Created(c)
          /\ gf_pc' = [gf_pc EXCEPT ![c] = "cdnget"]
          /\ UNCHANGED <<gf_result, gf_chunk>>
       \/ /\ GfFail(c)
          /\ UNCHANGED <<sessions, media_sessions>>
    /\ UNCHANGED <<storage_dc_id, gf_active, net_data, gf_dc, gf_progress, gf_session, gf_cdn, gf_r,
                   gf_offset, gf_mismatch, gf_requests>>
    /\ UNCHANGED notGf

\* chunks the CDN may answer with: the last possible one is short
CdnChunks(c) ==
    IF ~net_data THEN TerseChunks
    ELSE IF gf_offset[c] + 1 >= MaxChunks THEN {ch \in Chunks : Len(ch) < Limit}
    ELSE Chunks

\* hash lists upload.GetCdnFileHashes may answer with
ServerHashLists == IF net_data THEN HashLists ELSE {hl \in HashLists : Len(hl) <= 1}

\* 1627-1648: await cdn_session.send(GetCdnFile(offset))
GetFileCdnGet(c) ==
    /\ gf_pc[c] = "cdnget"
    /\ \/ /\ Reuploads(c) < MaxReuploads
          /\ gf_pc' = [gf_pc EXCEPT ![c] = "reupload"]
          /\ gf_requests' = Answered(c, "GetCdnFile", "CdnFileReuploadNeeded", <<>>)
          /\ UNCHANGED <<gf_result, gf_chunk, gf_file, media_sessions_lock>>
       \/ /\ \E chunk \in CdnChunks(c) :
                /\ gf_chunk' = [gf_chunk EXCEPT ![c] = chunk]
                /\ gf_requests' = Answered(c, "GetCdnFile", "CdnFile", chunk)
          /\ gf_pc' = [gf_pc EXCEPT ![c] = "cdnhashes"]
          /\ UNCHANGED <<gf_result, gf_file, media_sessions_lock>>
       \/ /\ GfFail(c)
          /\ gf_requests' = Answered(c, "GetCdnFile", "error", <<>>)
    /\ UNCHANGED <<gfSetup, gf_cdn, gf_r, gf_offset, gf_mismatch>>
    /\ UNCHANGED notGf

\* 1644-1645: `except VolumeLocNotFound: break` leaves the loop and the with
\* block; 1700-1701 return file_name
OnVolumeLocNotFound_Fails(c) == GfFail(c)
OnVolumeLocNotFound(c) ==
    /\ GfReturn(c, "path", media_sessions_lock)
    /\ UNCHANGED gf_file

\* 1635-1646: await session.send(ReuploadCdnFile)
GetFileReupload(c) ==
    /\ gf_pc[c] = "reupload"
    /\ \/ /\ gf_pc' = [gf_pc EXCEPT ![c] = "cdnget"]            \* else: continue
          /\ gf_requests' = Answered(c, "ReuploadCdnFile", "Reuploaded", <<>>)
          /\ UNCHANGED <<gf_result, gf_chunk, gf_file, media_sessions_lock>>
       \/ /\ OnVolumeLocNotFound(c)
          /\ gf_requests' = Answered(c, "ReuploadCdnFile", "VolumeLocNotFound", <<>>)
       \/ /\ GfFail(c)
          /\ gf_requests' = Answered(c, "ReuploadCdnFile", "error", <<>>)
    /\ UNCHANGED <<gfSetup, gf_cdn, gf_r, gf_offset, gf_mismatch>>
    /\ UNCHANGED notGf

\* 1686-1687: `if len(chunk) < limit: break`, else the next pass of the CDN loop
CdnLoopEnd(c) ==
    IF Len(gf_chunk[c]) < Limit
    THEN GfReturn(c, "path", media_sessions_lock)
    ELSE /\ gf_pc' = [gf_pc EXCEPT ![c] = "cdnget"]
         /\ gf_chunk' = [gf_chunk EXCEPT ![c] = <<>>]
         /\ UNCHANGED <<gf_result, media_sessions_lock>>

\* 1668-1670 failing: the AssertionError reaches `except Exception` of 1690
HashMismatch_Retry(c) ==
    /\ gf_pc' = [gf_pc EXCEPT ![c] = "cdnget"]
    /\ UNCHANGED <<gf_result, gf_chunk, gf_file, media_sessions_lock>>
HashMismatch(c) == GfFail(c)

\* 1651-1674: decrypt, await session.send(GetCdnFileHashes(offset)), verify, write
GetFileCdnHashes(c) ==
    /\ gf_pc[c] = "cdnhashes"
    /\ \/ \E hashes \in ServerHashLists :
            LET decrypted_chunk == ctr256_decrypt(gf_chunk[c], gf_offset[c] * Limit)
            IN  IF HashesOk(hashes, decrypted_chunk)
                THEN /\ gf_file' = Written(gf_file, c, decrypted_chunk)
                     /\ gf_unverified' = [gf_unverified EXCEPT
                                             ![c] = @ + Unhashed(hashes, decrypted_chunk)]
                     /\ gf_offset' = [gf_offset EXCEPT ![c] = @ + 1]
                     /\ IF gf_progress[c]
                        THEN /\ gf_pc' = [gf_pc EXCEPT ![c] = "cdnprogress"]
                             /\ UNCHANGED <<gf_result, gf_chunk, media_sessions_lock>>
                        ELSE CdnLoopEnd(c)
                     /\ UNCHANGED gf_mismatch
                ELSE /\ gf_mismatch' = [gf_mismatch EXCEPT ![c] = TRUE]
                     /\ HashMismatch(c)
                     /\ UNCHANGED <<gf_offset, gf_unverified>>
       \/ /\ GfFail(c)
          /\ UNCHANGED <<gf_offset, gf_mismatch, gf_unverified>>
    /\ UNCHANGED <<gfSetup, gf_cdn, gf_r, gf_requests>>
    /\ UNCHANGED notGfCv

\* 1676-1684: await progress(...) in the CDN loop
GetFileCdnProgress(c) ==
    /\ gf_pc[c] = "cdnprogress"
    /\ \/ /\ CdnLoopEnd(c)
          /\ UNCHANGED <<gf_file, gf_requests>>
       \/ \E e \in ProgressRaises :
            /\ OnException(c, e)
            /\ gf_requests' = Answered(c, "progress", e, <<>>)
    /\ UNCHANGED <<gfSetup, gf_cdn, gf_r, gf_offset, gf_mismatch>>
    /\ UNCHANGED notGf

UWorkers == 1..UPDATES_WORKERS
NoEnv == [kind |-> "None", users |-> <<>>, chats |-> <<>>, updates |-> <<>>]

NoTrace == [carried |-> 0, requested |-> 0, answered |-> 0, corrective |-> {},
            sources |-> <<>>]

UpdateLocalsFresh ==
    /\ storage_peers = {}
    /\ fp_peers = <<>>
    /\ fp_result = FALSE
    /\ dispatcher_queue = <<>>
    /\ up_pushes = 0
    /\ up_sentinels = 0
    /\ uw_env = [w \in UWorkers |-> NoEnv]
    /\ uw_idx = [w \in UWorkers |-> 0]
    /\ uw_is_min = [w \in UWorkers |-> FALSE]
    /\ uw_users = [w \in UWorkers |-> {}]
    /\ uw_chats = [w \in UWorkers |-> {}]
    /\ uw_logged = [w \in UWorkers |-> 0]
    /\ up_trace = NoTrace

UpdatesFresh ==
    /\ updates_queue = <<>>
    /\ UpdateLocalsFresh

\* no update worker task exists and fetch_peers is not being called
InitUpdatesIdle ==
    /\ UpdatesFresh
    /\ fp_pc = "off"
    /\ uw_pc = [w \in UWorkers |-> "off"]

NoMd5 == <<-1>>          \* md5_sum is None
NoSfTrace == [file_id |-> 0, md5_sum |-> NoMd5, rpcs |-> <<>>, reads |-> 0,
              progress |-> <<>>, result |-> [type |-> "none"]]

\* no upload is running
SaveFileFresh ==
    /\ sf_file_size = 0
    /\ sf_is_missing_part = FALSE
    /\ sf_file_part = 0
    /\ sf_progress = FALSE
    /\ sf_pool = <<>>
    /\ sf_i = 0
    /\ sf_queue = <<>>
    /\ sf_nones = 0
    /\ sf_waiting = 0
    /\ sf_sending = 0
    /\ sf_finished = 0
    /\ sf_send_failed = FALSE
    /\ sf_outcome = "pending"
    /\ sf_trace = NoSfTrace

InitSaveFileIdle == sf_pc = "off" /\ SaveFileFresh

\* state of a started client before any download
DWorkers == 1..DOWNLOAD_WORKERS

NoRequest == [fn |-> "none", args |-> <<>>]
NoReply == [kind |-> "none", x |-> 0]
NoLog == [sent |-> 0, prompts |-> 0, calls |-> 0, printed |-> 0, sleeps |-> 0, slept |-> 0,
          stopped |-> 0, keys |-> 0, started |-> 0]
NoLocal == [phone_number_invalid_raises |-> FALSE, phone_code_invalid_raises |-> FALSE,
            password_invalid_raises |-> FALSE, first_name_invalid_raises |-> FALSE,
            phone_registered |-> FALSE, terms_of_service |-> FALSE,
            phone_code_hash |-> 0, r |-> [fn |-> "none", user |-> 0]]

\* what authorize_user() starts from, but for the values passed to Client()
AuthFresh ==
    /\ au_local = NoLocal
    /\ au_request = NoRequest
    /\ au_reply = NoReply
    /\ au_errors = 0
    /\ au_log = NoLog
    /\ au_mark = [log |-> NoLog, request |-> NoRequest, self |-> au_self,
                  by |-> "none", user |-> 0]
    /\ au_error = "none"

\* an authorized client: authorize_user() is not called
InitAuthOff ==
    /\ storage_is_bot = FALSE
    /\ au_pc = "off"
    /\ au_given = [phone_number |-> "none", phone_code |-> "none", first_name |-> "none",
                   password |-> "none"]
    /\ au_force_sms = FALSE
    /\ au_self = [phone_number |-> None, phone_code |-> None, first_name |-> None,
                  last_name |-> None, password |-> None, recovery_code |-> None,
                  bot_token |-> None, session_dc |-> 1]
    /\ AuthFresh
InitAuthIdle == storage_user_id = UserId /\ InitAuthOff

\* resolve_peer() is not being called and no peer id is being converted
InitResolveIdle ==
    /\ storage_usernames = {}
    /\ storage_phones = {}
    /\ rp_pc = "off"
    /\ rp_peer_id = [type |-> "int", int |-> 0, str |-> <<>>]
    /\ rp_requests = <<>>
    /\ rp_retries = 0
    /\ rp_result = [type |-> "none"]
    /\ rp_error = "none"
InitPeerIdIdle ==
    /\ pi_pc = "off"
    /\ pi_in = <<>>
    /\ pi_out = <<>>
\* send() is not being called on its own
InitSendIdle ==
    /\ sd_pc = "off"
    /\ sd_r = <<>>
\* start() is not being called; the primary session of a started client
InitStartIdle ==
    /\ self_session = [created |-> TRUE, started |-> TRUE]
    /\ start_pc = "off"
    /\ start_error = "none"
\* send_video() is not being called
InitSendVideoIdle ==
    /\ sv_pc = "off"
    /\ sv_size = 0
    /\ sv_thumb = [type |-> "none"]
    /\ sv_file = [type |-> "none"]
    /\ sv_requests = 0
    /\ sv_result = "pending"
\* the jobs as their callers made them: gate clear, result cell [None]
JobIds == Job..(Job + MaxPending)
NoPath == "None"        \* path[0] is None
NoJob == [done |-> 0, path |-> NoPath, got |-> "none", moved |-> FALSE]
InitDownloadIdle ==
    /\ dw_packet = [w \in DWorkers |-> None]
    /\ dl_jobs = [j \in JobIds |-> NoJob]
\* no file id is being converted
InitFileIdIdle ==
    /\ fi_pc = "off"
    /\ fi_in = <<>>
    /\ fi_out = <<>>
\* no send_message() call is running
InitSendMessageIdle ==
    /\ sm_pc = "off"
    /\ sm_chat_id = [type |-> "int", int |-> 0, str |-> <<>>]
    /\ sm_peer = [type |-> "none"]
    /\ sm_r = [type |-> "none", id |-> 0, date |-> 0]
    /\ sm_result = [type |-> "none", message_id |-> 0, date |-> 0, chat_id |-> 0,
                    chat_type |-> "none", error |-> "none"]
\* start() calls are not counted
InitStartCallsIdle == start_calls = 0
\* nothing was written yet
InitUnverified == gf_unverified = [c \in Callers |-> 0]
\* no overlapping start() calls are made
StartCallers == 1..MaxStartCallers
InitOverlapIdle ==
    /\ o_pc = [k \in StartCallers |-> "off"]
    /\ o_error = [k \in StartCallers |-> "none"]
    /\ o_created = [k \in StartCallers |-> FALSE]
    /\ o_pooled = [k \in StartCallers |-> FALSE]
InitTailIdle ==
    /\ InitFileIdIdle /\ InitSendMessageIdle /\ InitStartCallsIdle /\ InitUnverified
    /\ InitOverlapIdle
InitEtcIdle == InitSendIdle /\ InitStartIdle /\ InitSendVideoIdle /\ InitDownloadIdle /\ InitTailIdle

\* a started client that is not being stopped; no download_worker task is modelled
InitStopIdle ==
    /\ is_started = TRUE
    /\ takeout_id = FALSE
    /\ stop_pc = "off"
    /\ stop_i = 0
    /\ download_queue = <<>>
    /\ dl_sentinels = 0
    /\ dw_pc = [w \in DWorkers |-> "off"]
    /\ dw_handled = [w \in DWorkers |-> 0]

\* no media session exists
InitNoSessions ==
    /\ media_sessions = [d \in DCs |-> None]
    /\ sessions = [i \in SessionIds |-> NoSession]

\* no get_file call is in progress
InitCallers ==
    /\ storage_dc_id = 1
    /\ media_sessions_lock = None
    /\ gf_pc = [c \in Callers |-> "idle"]
    /\ gf_dc = [c \in Callers |-> 1]
    /\ gf_progress = [c \in Callers |-> FALSE]
    /\ gf_session = [c \in Callers |-> None]
    /\ gf_cdn = [c \in Callers |-> None]
    /\ gf_r = [c \in Callers |-> None]
    /\ gf_offset = [c \in Callers |-> 0]
    /\ gf_chunk = [c \in Callers |-> <<>>]
    /\ gf_file = [c \in Callers |-> NoFile]
    /\ gf_result = [c \in Callers |-> "pending"]
    /\ gf_mismatch = [c \in Callers |-> FALSE]
    /\ gf_requests = [c \in Callers |-> <<>>]

InitMedia == InitNoSessions /\ InitCallers

\* one download of a file with data
InitGetFile ==
    InitMedia /\ gf_active = {1} /\ net_data = TRUE /\ InitSaveFileIdle /\ InitUpdatesIdle
    /\ InitStopIdle /\ InitAuthIdle /\ InitResolveIdle /\ InitPeerIdIdle /\ InitEtcIdle

\* concurrent downloads of files of at most one byte per chunk
InitMediaSessions ==
    InitMedia /\ gf_active = Callers /\ net_data = FALSE /\ InitSaveFileIdle
    /\ InitUpdatesIdle /\ InitStopIdle /\ InitAuthIdle /\ InitResolveIdle /\ InitPeerIdIdle /\ InitEtcIdle

\* no download is made
InitGetFileIdle == InitMedia /\ gf_active = {} /\ net_data = FALSE

NextGetFile ==
    \E c \in Callers :
        \/ GetFileCall(c)
        \/ GetFileLookup(c)
        \/ GetFileExport(c)
        \/ GetFileAuthKey(c)
        \/ GetFileStart(c)
        \/ GetFileImport(c)
        \/ GetFileFirst(c)
        \/ GetFileProgress(c)
        \/ GetFileNext(c)
        \/ GetFileCdnLookup(c)
        \/ GetFileCdnAuthKey(c)
        \/ GetFileCdnStart(c)
        \/ GetFileCdnGet(c)
        \/ GetFileReupload(c)
        \/ GetFileCdnHashes(c)
        \/ GetFileCdnProgress(c)

\* the steps of get_file that read or write media_sessions, its lock or a session:
\* the chunk loops, which touch none of them, are left out
NextMediaSessions ==
    \E c \in Callers :
        \/ GetFileCall(c)
        \/ GetFileLookup(c)
        \/ GetFileExport(c)
        \/ GetFileAuthKey(c)
        \/ GetFileStart(c)
        \/ GetFileImport(c)
        \/ GetFileFirst(c)
        \/ GetFileCdnLookup(c)
        \/ GetFileCdnAuthKey(c)
        \/ GetFileCdnStart(c)

SpecGetFile == InitGetFile /\ [][NextGetFile]_vars
SpecMediaSessions == InitMediaSessions /\ [][NextMediaSessions]_vars

\* -------------------------------------------------------------- save_file
file_total_parts(file_size) == (file_size + PartSize - 1) \div PartSize
is_big(file_size) == file_size > BigLimit
pool_size(big) == IF big THEN 3 ELSE 1
workers_count(big) == IF big THEN 4 ELSE 1
\* len(workers): one task `for session in pool for _ in range(workers_count)`
NumWorkers(big) == pool_size(big) * workers_count(big)

SfBig == is_big(sf_file_size)

sfWorkers == <<sf_waiting, sf_sending, sf_finished, sf_send_failed>>
sfArgs == <<sf_file_size, sf_is_missing_part, sf_progress>>

\* control reaches the `finally` block of 1479 with the given pending outcome
EnterFinally(outcome) ==
    /\ sf_pc' = "poison"
    /\ sf_outcome' = outcome

\* 1460-1461: `except Client.StopTransmission: raise`
OnStopTransmission_NoCleanup ==
    /\ sf_pc' = "done"
    /\ sf_outcome' = "StopTransmission"
OnStopTransmission == EnterFinally("StopTransmission")

\* 1412-1413: file_id as passed, or self.rnd_id()
GivenId == 5
RndId == 9
\* md5.update(chunk) and md5.digest(): the digest stands for the chunks hashed
md5_update(md5_sum, part) == Append(md5_sum, part)

\* 1438-1449: the request for the chunk at file_part
ChunkRpc_NoPart(file_id, part, size) ==
    [fn |-> IF is_big(size) THEN "SaveBigFilePart" ELSE "SaveFilePart", file_id |-> file_id,
     file_part |-> 0, file_total_parts |-> IF is_big(size) THEN file_total_parts(size) ELSE 0]
ChunkRpc(file_id, part, size) ==
    IF is_big(size)
    THEN [fn |-> "SaveBigFilePart", file_id |-> file_id, file_part |-> part,
          file_total_parts |-> file_total_parts(size)]
    ELSE [fn |-> "SaveFilePart", file_id |-> file_id, file_part |-> part,
          file_total_parts |-> 0]

\* 1464-1478: the value of the `else` clause
InputFileOf(trace, size) ==
    IF is_big(size)
    THEN [type |-> "InputFileBig", id |-> trace.file_id, parts |-> file_total_parts(size),
          md5_checksum |-> NoMd5]
    ELSE [type |-> "InputFile", id |-> trace.file_id, parts |-> file_total_parts(size),
          md5_checksum |-> trace.md5_sum]

\* 1427-1432 and 1464-1478: f.read(part_size) at part `part`
ReadNext(part, trace) ==
    LET read == [trace EXCEPT !.reads = @ + 1]
    IN  IF part < file_total_parts(sf_file_size)
        THEN /\ sf_pc' = "put"
             /\ sf_trace' = read
             /\ UNCHANGED sf_outcome
        ELSE IF ~SfBig /\ sf_is_missing_part
        THEN /\ EnterFinally("None")       \* md5_sum is None: AttributeError, logged
             /\ sf_trace' = read
        ELSE /\ EnterFinally(IF SfBig THEN "InputFileBig" ELSE "InputFile")
             /\ sf_trace' = [read EXCEPT !.result = InputFileOf(read, sf_file_size)]

\* 1399-1417: size checks, file_id, md5_sum, pool, worker tasks and queue of a
\* new call; file_id is None unless it was passed
SaveFileEnter(size, file_id, progress, part) ==
    /\ sf_file_size' = size
    /\ sf_is_missing_part' = (file_id # None)
    /\ sf_file_part' = part
    /\ sf_progress' = progress
    /\ sf_queue' = <<>>
    /\ sf_nones' = 0
    /\ sf_sending' = 0
    /\ sf_finished' = 0
    /\ sf_send_failed' = FALSE
    /\ IF size = 0
       THEN /\ sf_pc' = "done"
            /\ sf_outcome' = "ValueError"
            /\ sf_pool' = <<>>
            /\ sf_i' = 0
            /\ sf_waiting' = 0
            /\ sf_trace' = NoSfTrace
       ELSE /\ sf_pc' = "start"
            /\ sf_outcome' = "pending"
            /\ sf_pool' = [i \in 1..pool_size(is_big(size)) |->
                              [started |-> FALSE, stopped |-> FALSE]]
            /\ sf_i' = 1
            /\ sf_waiting' = NumWorkers(is_big(size))
            /\ sf_trace' = [NoSfTrace EXCEPT
                              !.file_id = IF file_id # None THEN file_id ELSE RndId,
                              !.md5_sum = IF ~is_big(size) /\ file_id = None
                                          THEN <<>> ELSE NoMd5]

\* a direct call of save_file
SaveFileCall ==
    /\ sf_pc = "idle"
    /\ \E size \in 0..MaxFileSize, file_id \in {None, GivenId}, progress \in BOOLEAN :
        \E part \in (IF file_id # None THEN 0..file_total_parts(size) ELSE {0}) :
            SaveFileEnter(size, file_id, progress, part)
    /\ UNCHANGED notSf

\* 1420-1421: await session.start() for the next session of the pool
SaveFileStartSession ==
    /\ sf_pc = "start"
    /\ \/ /\ sf_pool' = [sf_pool EXCEPT ![sf_i].started = TRUE]
          /\ IF sf_i = Len(sf_pool)
             THEN ReadNext(sf_file_part, sf_trace) /\ UNCHANGED sf_i
             ELSE sf_i' = sf_i + 1 /\ UNCHANGED <<sf_pc, sf_outcome, sf_trace>>
       \/ /\ EnterFinally("None")       \* except Exception: logged
          /\ UNCHANGED <<sf_pool, sf_i, sf_trace>>
    /\ UNCHANGED <<sfArgs, sf_file_part, sf_queue, sf_nones, sfWorkers>>
    /\ UNCHANGED notSf

\* 1450-1451: `if is_missing_part: return`
ReturnsAfterPut_Never(missing) == FALSE
ReturnsAfterPut(missing) == missing

\* 1434-1456: await queue.put(rpc), then on to the callback or the next read
SaveFilePut ==
    /\ sf_pc = "put"
    /\ Len(sf_queue) < QueueCap
    /\ sf_queue' = Append(sf_queue, sf_file_part)
    /\ LET put == [sf_trace EXCEPT
                      !.rpcs = Append(@, ChunkRpc(sf_trace.file_id, sf_file_part,
                                                  sf_file_size))]
           hashed == IF SfBig THEN put
                     ELSE [put EXCEPT !.md5_sum = md5_update(@, sf_file_part)]
       IN  IF ReturnsAfterPut(sf_is_missing_part)
           THEN /\ EnterFinally("None")
                /\ sf_trace' = put
                /\ UNCHANGED sf_file_part
           ELSE /\ sf_file_part' = sf_file_part + 1
                /\ IF sf_progress
                   THEN /\ sf_pc' = "progress"
                        /\ sf_trace' = [hashed EXCEPT !.progress =
                              Append(@, <<Min((sf_file_part + 1) * PartSize, sf_file_size),
                                          sf_file_size>>)]
                        /\ UNCHANGED sf_outcome
                   ELSE ReadNext(sf_file_part + 1, hashed)
    /\ UNCHANGED <<sfArgs, sf_pool, sf_i, sf_nones, sfWorkers>>
    /\ UNCHANGED notSf

\* 1458-1463: await progress(...)
SaveFileProgress ==
    /\ sf_pc = "progress"
    /\ \/ ReadNext(sf_file_part, sf_trace)
       \/ OnStopTransmission /\ UNCHANGED sf_trace
       \/ EnterFinally("None") /\ UNCHANGED sf_trace       \* any other exception: logged
    /\ UNCHANGED <<sfArgs, sf_file_part, sf_pool, sf_i, sf_queue, sf_nones, sfWorkers>>
    /\ UNCHANGED notSf

\* 1480-1481: await queue.put(None), once per worker task
SaveFilePoison ==
    /\ sf_pc = "poison"
    /\ Len(sf_queue) < QueueCap
    /\ sf_queue' = Append(sf_queue, Poison)
    /\ sf_nones' = sf_nones + 1
    /\ sf_pc' = IF sf_nones + 1 = NumWorkers(SfBig) THEN "gather" ELSE "poison"
    /\ UNCHANGED <<sfArgs, sf_file_part, sf_pool, sf_i, sfWorkers, sf_outcome, sf_trace>>
    /\ UNCHANGED notSf

\* 1483: await asyncio.gather(*workers)
SaveFileGather ==
    /\ sf_pc = "gather"
    /\ sf_finished = NumWorkers(SfBig)
    /\ sf_pc' = "stop"
    /\ sf_i' = 1
    /\ UNCHANGED <<sfArgs, sf_file_part, sf_pool, sf_queue, sf_nones, sfWorkers, sf_outcome, sf_trace>>
    /\ UNCHANGED notSf

\* 1485-1486: await session.stop() for the next session of the pool
SaveFileStopSession ==
    /\ sf_pc = "stop"
    /\ sf_pool' = [sf_pool EXCEPT ![sf_i].stopped = TRUE]
    /\ IF sf_i = Len(sf_pool)
       THEN sf_pc' = "done" /\ UNCHANGED sf_i
       ELSE sf_i' = sf_i + 1 /\ UNCHANGED sf_pc
    /\ UNCHANGED <<sfArgs, sf_file_part, sf_queue, sf_nones, sfWorkers, sf_outcome, sf_trace>>
    /\ UNCHANGED notSf

SaveFileWorkerGet_Lifo ==
    /\ sf_pc \in {"start", "put", "progress", "poison", "gather", "stop"}
    /\ sf_waiting > 0
    /\ sf_queue # <<>>
    /\ sf_queue' = SubSeq(sf_queue, 1, Len(sf_queue) - 1)
    /\ sf_waiting' = sf_waiting - 1
    /\ IF sf_queue[Len(sf_queue)] = Poison
       THEN sf_finished' = sf_finished + 1 /\ UNCHANGED sf_sending
       ELSE sf_sending' = sf_sending + 1 /\ UNCHANGED sf_finished
    /\ UNCHANGED <<sfArgs, sf_pc, sf_file_part, sf_pool, sf_i, sf_nones, sf_send_failed,
                   sf_outcome, sf_trace>>
    /\ UNCHANGED notSf
\* 1388-1392: a worker task takes the head of the queue
SaveFileWorkerGet ==
    /\ sf_pc \in {"start", "put", "progress", "poison", "gather", "stop"}
    /\ sf_waiting > 0
    /\ sf_queue # <<>>
    /\ sf_queue' = Tail(sf_queue)
    /\ sf_waiting' = sf_waiting - 1
    /\ IF Head(sf_queue) = Poison
       THEN sf_finished' = sf_finished + 1 /\ UNCHANGED sf_sending
       ELSE sf_sending' = sf_sending + 1 /\ UNCHANGED sf_finished
    /\ UNCHANGED <<sfArgs, sf_pc, sf_file_part, sf_pool, sf_i, sf_nones, sf_send_failed,
                   sf_outcome, sf_trace>>
    /\ UNCHANGED notSf

\* 1394-1397: the worker's session.send(data) returns or raises (logged)
SaveFileWorkerSent ==
    /\ sf_sending > 0
    /\ sf_sending' = sf_sending - 1
    /\ sf_waiting' = sf_waiting + 1
    /\ \E failed \in BOOLEAN : sf_send_failed' = (sf_send_failed \/ failed)
    /\ UNCHANGED <<sfArgs, sf_pc, sf_file_part, sf_pool, sf_i, sf_queue, sf_nones,
                   sf_finished, sf_outcome, sf_trace>>
    /\ UNCHANGED notSf

\* one save_file call on a started client
InitSaveFile ==
    InitGetFileIdle /\ sf_pc = "idle" /\ SaveFileFresh /\ InitUpdatesIdle /\ InitStopIdle
    /\ InitAuthIdle /\ InitResolveIdle /\ InitPeerIdIdle /\ InitEtcIdle

NextSaveFile ==
    \/ SaveFileCall
    \/ SaveFileStartSession
    \/ SaveFilePut
    \/ SaveFileProgress
    \/ SaveFilePoison
    \/ SaveFileGather
    \/ SaveFileStopSession
    \/ SaveFileWorkerGet
    \/ SaveFileWorkerSent

SpecSaveFile == InitSaveFile /\ [][NextSaveFile]_vars

\* --------------------------------------------------------------- send_video
notSv == <<gfVars, upVars, stVars, auVars, rpVars, piVars, sdVars, startVars, dwVars, tailVars>>

\* send_video ends: `return x`, or an exception that leaves it
SvEnds(result) ==
    /\ sv_pc' = "done"
    /\ sv_result' = result
\* 184-185: `except BaseClient.StopTransmission: return None`
SvOnStopTransmission_Raise == SvEnds("StopTransmission")
SvOnStopTransmission == SvEnds("None")
\* a save_file call of send_video raised
SvSaveFileRaised ==
    IF sf_outcome = "StopTransmission" THEN SvOnStopTransmission ELSE SvEnds(sf_outcome)
\* 139: file = await self.save_file(video, progress=progress, ...)
SvUploadVideo ==
    \E size \in 0..MaxFileSize, progress \in BOOLEAN :
        /\ SaveFileEnter(size, None, progress, 0)
        /\ sv_size' = size
        /\ sv_pc' = "upload"

\* 134-138, 153-158: send_video(video, thumb) is called with a path, a URL or a
\* file id
SendVideoCall ==
    /\ sv_pc = "call"
    /\ \/ \E size \in 0..MaxFileSize :                 \* thumb is a file to upload
            /\ SaveFileEnter(size, None, FALSE, 0)
            /\ sv_pc' = "thumb"
            /\ UNCHANGED sv_size
       \/ SvUploadVideo                                \* thumb is None
       \/ /\ sv_pc' = "send"                           \* a URL or a file id
          /\ UNCHANGED <<sfVars, sv_size>>
    /\ UNCHANGED <<sv_thumb, sv_file, sv_requests, sv_result>>
    /\ UNCHANGED notSv

\* 138-139: save_file(thumb) has ended
SendVideoThumbSaved ==
    /\ sv_pc = "thumb"
    /\ sf_pc = "done"
    /\ IF sf_outcome \in {"ValueError", "StopTransmission"}
       THEN /\ SvSaveFileRaised
            /\ UNCHANGED <<sfVars, sv_size, sv_thumb>>
       ELSE /\ sv_thumb' = sf_trace.result
            /\ SvUploadVideo
            /\ UNCHANGED sv_result
    /\ UNCHANGED <<sv_file, sv_requests>>
    /\ UNCHANGED notSv

\* 139-152: save_file(video) has ended
SendVideoUploaded ==
    /\ sv_pc = "upload"
    /\ sf_pc = "done"
    /\ IF sf_outcome \in {"ValueError", "StopTransmission"}
       THEN SvSaveFileRaised /\ UNCHANGED sv_file
       ELSE /\ sv_file' = sf_trace.result
            /\ sv_pc' = "send"
            /\ UNCHANGED sv_result
    /\ UNCHANGED <<sfVars, sv_size, sv_thumb, sv_requests>>
    /\ UNCHANGED notSv

\* 160-183: the SendMedia request is answered
SendVideoSent ==
    /\ sv_pc = "send"
    /\ sv_requests < MaxSends
    /\ sv_requests' = sv_requests + 1
    /\ \/ /\ SvEnds("Message")                  \* r.updates has the new message
          /\ UNCHANGED sfVars
       \/ /\ UNCHANGED <<sv_pc, sv_result, sfVars>>      \* it has none: `while True`
       \/ /\ SvEnds("RPCError")
          /\ UNCHANGED sfVars
       \/ IF sv_file.type = "none"              \* FilePartMissing, file is None:
          THEN /\ SvEnds("AttributeError")      \* file.id
               /\ UNCHANGED sfVars
          ELSE \E x \in 0..(sv_file.parts - 1) :
                  /\ SaveFileEnter(sv_size, sv_file.id, FALSE, x)
                  /\ sv_pc' = "resume"
                  /\ UNCHANGED sv_result
    /\ UNCHANGED <<sv_size, sv_thumb, sv_file>>
    /\ UNCHANGED notSv

\* 175-176: save_file(video, file_id=file.id, file_part=e.x) has ended
SendVideoResumed ==
    /\ sv_pc = "resume"
    /\ sf_pc = "done"
    /\ IF sf_outcome \in {"ValueError", "StopTransmission"}
       THEN SvSaveFileRaised
       ELSE sv_pc' = "send" /\ UNCHANGED sv_result
    /\ UNCHANGED <<sfVars, sv_size, sv_thumb, sv_file, sv_requests>>
    /\ UNCHANGED notSv

\* one send_video call on a started client
InitSendVideo ==
    /\ InitGetFileIdle /\ InitSaveFileIdle /\ InitUpdatesIdle /\ InitStopIdle
    /\ InitAuthIdle /\ InitResolveIdle /\ InitPeerIdIdle /\ InitSendIdle /\ InitStartIdle
    /\ InitDownloadIdle /\ InitTailIdle
    /\ sv_pc = "call"
    /\ sv_size = 0
    /\ sv_thumb = [type |-> "none"]
    /\ sv_file = [type |-> "none"]
    /\ sv_requests = 0
    /\ sv_result = "pending"

NextSendVideo ==
    \/ SendVideoCall
    \/ SendVideoThumbSaved
    \/ SendVideoUploaded
    \/ SendVideoSent
    \/ SendVideoResumed
    \/ SaveFileStartSession
    \/ SaveFilePut
    \/ SaveFileProgress
    \/ SaveFilePoison
    \/ SaveFileGather
    \/ SaveFileStopSession
    \/ SaveFileWorkerGet
    \/ SaveFileWorkerSent

SpecSendVideo == InitSendVideo /\ [][NextSendVideo]_vars

\* ------------------------------------------------------------ fetch_peers
PeerKinds == {"User", "UserEmpty", "Chat", "ChatForbidden", "Channel", "ChannelForbidden"}
\* a record of updates.users / updates.chats; flag is bot (users) or broadcast (channels)
PeerRecs == [kind : PeerKinds, id : 1..MaxPeerId, access_hash : {NoneHash, Cred},
             flag : BOOLEAN]
\* the batches of at most n records
Batches(n) == SeqsUpTo(PeerRecs, n)

\* the power of ten that "-100" + str(id) shifts the prefix by
RECURSIVE Shift10(_)
Shift10(id) == IF id < 10 THEN 10 ELSE 10 * Shift10(id \div 10)
\* int("-100" + str(peer.id))
ChannelPeerId(id) == -(100 * Shift10(id) + id)

Parsed(peer_id, access_hash, peer_type) ==
    [id |-> peer_id, access_hash |-> access_hash, type |-> peer_type]

RECURSIVE FetchLoop(_, _, _)
\* 791-793, 812-814: `is_min = True; continue`
OnMinPeer_Break(rest, parsed) == [is_min |-> TRUE, parsed |-> parsed]
OnMinPeer(rest, parsed) == FetchLoop(rest, TRUE, parsed)

\* 775-821: the `for peer in peers` loop
FetchLoop(peers, is_min, parsed) ==
    IF peers = <<>> THEN [is_min |-> is_min, parsed |-> parsed]
    ELSE LET peer == Head(peers)
             rest == Tail(peers)
         IN  IF peer.kind = "User"
             THEN IF peer.access_hash = NoneHash
                  THEN OnMinPeer(rest, parsed)
                  ELSE FetchLoop(rest, is_min,
                          Append(parsed, Parsed(peer.id, peer.access_hash,
                                                IF peer.flag THEN "bot" ELSE "user")))
             ELSE IF peer.kind \in {"Chat", "ChatForbidden"}
             THEN FetchLoop(rest, is_min, Append(parsed, Parsed(-peer.id, 0, "group")))
             ELSE IF peer.kind \in {"Channel", "ChannelForbidden"}
             THEN IF peer.access_hash = NoneHash
                  THEN OnMinPeer(rest, parsed)
                  ELSE FetchLoop(rest, is_min,
                          Append(parsed, Parsed(ChannelPeerId(peer.id), peer.access_hash,
                                                IF peer.flag THEN "channel" ELSE "supergroup")))
             ELSE FetchLoop(rest, is_min, parsed)

\* storage.update_peers(parsed_peers): insert or replace by id, in order
RECURSIVE update_peers(_, _)
update_peers(store, parsed_peers) ==
    IF parsed_peers = <<>> THEN store
    ELSE LET p == Head(parsed_peers)
         IN  update_peers({q \in store : q.id # p.id} \cup {p}, Tail(parsed_peers))

\* 762-825: fetch_peers(peers) on a storage: the new storage and the flag
fetch_peers(store, peers) ==
    LET r == FetchLoop(peers, FALSE, <<>>)
    IN  [is_min |-> r.is_min, store |-> update_peers(store, r.parsed)]

\* a direct call of fetch_peers on a batch
FetchPeersCall ==
    /\ fp_pc = "call"
    /\ LET r == fetch_peers(storage_peers, fp_peers)
       IN  /\ storage_peers' = r.store
           /\ fp_result' = r.is_min
    /\ fp_pc' = "returned"
    /\ UNCHANGED <<fp_peers, updates_queue, dispatcher_queue, up_pushes, up_sentinels,
                   uw_pc, uw_env, uw_idx, uw_is_min, uw_users, uw_chats, uw_logged,
                   up_trace>>
    /\ UNCHANGED notUp

InitFetchPeers ==
    /\ InitGetFileIdle
    /\ InitSaveFileIdle
    /\ InitStopIdle
    /\ InitAuthIdle /\ InitResolveIdle /\ InitPeerIdIdle /\ InitEtcIdle
    /\ storage_peers = {}
    /\ fp_peers \in Batches(MaxBatch)
    /\ fp_result = FALSE
    /\ fp_pc = "call"
    /\ updates_queue = <<>>
    /\ dispatcher_queue = <<>>
    /\ up_pushes = 0
    /\ up_sentinels = 0
    /\ uw_pc = [w \in UWorkers |-> "off"]
    /\ uw_env = [w \in UWorkers |-> NoEnv]
    /\ uw_idx = [w \in UWorkers |-> 0]
    /\ uw_is_min = [w \in UWorkers |-> FALSE]
    /\ uw_users = [w \in UWorkers |-> {}]
    /\ uw_chats = [w \in UWorkers |-> {}]
    /\ uw_logged = [w \in UWorkers |-> 0]
    /\ up_trace = NoTrace

NextFetchPeers == FetchPeersCall

SpecFetchPeers == InitFetchPeers /\ [][NextFetchPeers]_vars

\* --------------------------------------------------------- updates_worker
UFull == [kind |-> "User", id |-> 1, access_hash |-> Cred, flag |-> FALSE]
UMin == [kind |-> "User", id |-> 2, access_hash |-> NoneHash, flag |-> FALSE]
UBackfilled == [kind |-> "User", id |-> 2, access_hash |-> Cred, flag |-> FALSE]
ChanFull == [kind |-> "Channel", id |-> 1, access_hash |-> Cred, flag |-> TRUE]
ChanMin == [kind |-> "Channel", id |-> 2, access_hash |-> NoneHash, flag |-> TRUE]
Group == [kind |-> "Chat", id |-> 1, access_hash |-> NoneHash, flag |-> FALSE]

\* updates carried by an envelope: message_id of the message, empty for MessageEmpty
NewMsg == [kind |-> "UpdateNewChannelMessage", empty |-> FALSE, message_id |-> 1]
NewEmpty == [kind |-> "UpdateNewChannelMessage", empty |-> TRUE, message_id |-> 2]
Edit == [kind |-> "UpdateEditChannelMessage", empty |-> FALSE, message_id |-> 1]
NewPrivate == [kind |-> "UpdateNewMessage", empty |-> FALSE, message_id |-> 3]

Env(kind, users, chats, updates) ==
    [kind |-> kind, users |-> users, chats |-> chats, updates |-> updates]

\* types.Update / types.UpdatesCombined pushed by the transport
CombinedEnvelopes ==
    {Env("Updates", <<UFull>>, <<ChanFull>>, <<NewMsg, Edit>>),
     Env("Updates", <<UMin, UFull>>, <<ChanFull>>, <<NewEmpty, Edit>>),
     Env("Updates", <<UFull>>, <<ChanMin, Group>>, <<NewMsg, Edit>>),
     Env("Updates", <<UMin, UFull>>, <<ChanFull>>, <<NewMsg, NewMsg>>)}
Envelopes ==
    CombinedEnvelopes \cup
    {Env("UpdateShortMessage", <<>>, <<>>, <<>>),
     Env("UpdateShort", <<>>, <<>>, <<Edit>>),
     Env("UpdatesTooLong", <<>>, <<>>, <<>>)}

\* outcomes of updates.GetChannelDifference: ChannelPrivate raised, or a difference
ChannelDifferences ==
    {[private |-> TRUE, empty |-> TRUE, users |-> <<>>, chats |-> <<>>],
     [private |-> FALSE, empty |-> TRUE, users |-> <<>>, chats |-> <<>>],
     [private |-> FALSE, empty |-> FALSE, users |-> <<UBackfilled>>, chats |-> <<ChanFull>>]}
\* answers of updates.GetDifference
Differences ==
    {[new_messages |-> m, other_updates |-> o, users |-> <<UFull>>, chats |-> <<>>] :
        m \in {<<>>, <<NewPrivate>>}, o \in {<<>>, <<Edit>>}}

\* {x.id: x for x in batch} and dict.update: the last record of an id wins
RECURSIVE DictUpdate(_, _)
DictUpdate(map, batch) ==
    IF batch = <<>> THEN map
    ELSE LET x == Head(batch)
         IN  DictUpdate({y \in map : y.id # x.id} \cup {x}, Tail(batch))

Forwarded(update, users, chats) == [update |-> update, users |-> users, chats |-> chats]

\* 883: is_min = self.fetch_peers(updates.users) or self.fetch_peers(updates.chats)
Harvest(store, env) ==
    LET u == fetch_peers(store, env.users)
    IN  IF u.is_min THEN u
        ELSE fetch_peers(u.store, env.chats)

\* 989-1003: Client.send harvests the users and the chats of a response
SendHarvest(store, r) == fetch_peers(fetch_peers(store, r.users).store, r.chats).store

\* 903-906: the update needs a corrective GetChannelDifference
NeedsDiff_AnyKind(update, is_min) == is_min /\ ~update.empty
NeedsDiff(update, is_min) ==
    update.kind = "UpdateNewChannelMessage" /\ is_min /\ ~update.empty

\* 928: put_nowait for an update that needs no request
Forward_Twice(dq, update, users, chats) ==
    dq \o <<Forwarded(update, users, chats), Forwarded(update, users, chats)>>
Forward(dq, update, users, chats) == Append(dq, Forwarded(update, users, chats))

\* 888-928: the `for update in updates.updates` loop from index idx up to the next
\* await (idx of the update that needs a request, 0 when the loop is over)
RECURSIVE RunUpdates(_, _, _, _, _, _)
RunUpdates(list, idx, is_min, users, chats, dq) ==
    IF idx > Len(list) THEN [idx |-> 0, dq |-> dq]
    ELSE IF NeedsDiff(list[idx], is_min) THEN [idx |-> idx, dq |-> dq]
    ELSE RunUpdates(list, idx + 1, is_min, users, chats,
                    Forward(dq, list[idx], users, chats))

\* 907-918: GetChannelDifference for the message of the update
CorrectiveRequest(update, env) ==
    [fn |-> "GetChannelDifference", update |-> update, env |-> env,
     min_id |-> update.message_id, max_id |-> update.message_id]

\* 928: self.dispatcher.updates_queue.put_nowait((update, users, chats))
ForwardAfterDiff_Drop(dq, tuple) == dq
ForwardAfterDiff(dq, tuple) == Append(dq, tuple)

\* the history after an envelope carrying k updates is taken from the queue
Taken(trace, k) == [trace EXCEPT !.carried = @ + k]
\* the history after n tuples of `env` are put on dispatcher_queue, the first of
\* them after the answer `answer`
Sourced(trace, env, n, answer) ==
    [trace EXCEPT !.sources =
        @ \o [i \in 1..n |-> [env |-> env, answer |-> IF i = 1 THEN answer ELSE "none"]]]
\* the name of an outcome of GetChannelDifference
AnswerOf(outcome) ==
    IF outcome.private THEN "ChannelPrivate"
    ELSE IF outcome.empty THEN "ChannelDifferenceEmpty"
    ELSE "ChannelDifference"

uwLocals == <<uw_env, uw_idx, uw_is_min, uw_users, uw_chats>>
upEnv == <<fp_pc, fp_peers, fp_result, up_pushes, up_sentinels>>

\* back to `updates = await self.updates_queue.get()`: the locals are dead
WorkerLoops(w) ==
    /\ uw_pc' = [uw_pc EXCEPT ![w] = "get"]
    /\ uw_env' = [uw_env EXCEPT ![w] = NoEnv]
    /\ uw_idx' = [uw_idx EXCEPT ![w] = 0]
    /\ uw_is_min' = [uw_is_min EXCEPT ![w] = FALSE]
    /\ uw_users' = [uw_users EXCEPT ![w] = {}]
    /\ uw_chats' = [uw_chats EXCEPT ![w] = {}]

\* 954-955: `except Exception as e: log.error(e, exc_info=True)`
WorkerLogs_Dies(w) ==
    /\ uw_logged' = [uw_logged EXCEPT ![w] = @ + 1]
    /\ uw_pc' = [uw_pc EXCEPT ![w] = "done"]
    /\ UNCHANGED uwLocals
WorkerLogs(w) ==
    /\ uw_logged' = [uw_logged EXCEPT ![w] = @ + 1]
    /\ WorkerLoops(w)

\* the transport puts a pushed envelope on updates_queue
UpdatesPush ==
    /\ up_pushes < MaxPushes
    /\ \E env \in Envelopes : updates_queue' = Append(updates_queue, env)
    /\ up_pushes' = up_pushes + 1
    /\ UNCHANGED <<storage_peers, fp_pc, fp_peers, fp_result, dispatcher_queue,
                   up_sentinels, uw_pc, uwLocals, uw_logged, up_trace>>
    /\ UNCHANGED notUp

\* 373-374: stop() puts one None per update worker
PutUpdateSentinels ==
    /\ updates_queue' = updates_queue \o [i \in 1..UPDATES_WORKERS |-> NoEnv]
    /\ up_sentinels' = up_sentinels + (Len(updates_queue') - Len(updates_queue))

UpdatesStopSignal ==
    /\ up_sentinels = 0
    /\ PutUpdateSentinels
    /\ UNCHANGED <<storage_peers, fp_pc, fp_peers, fp_result, dispatcher_queue,
                   up_pushes, uw_pc, uwLocals, uw_logged, up_trace>>
    /\ UNCHANGED notUp

\* 876-886, 929-953: dequeue an envelope and process it up to its first await
UpdatesWorkerGet(w) ==
    /\ uw_pc[w] = "get"
    /\ updates_queue # <<>>
    /\ updates_queue' = Tail(updates_queue)
    /\ LET updates == Head(updates_queue)
       IN  CASE updates.kind = "None" ->
                  /\ uw_pc' = [uw_pc EXCEPT ![w] = "done"]
                  /\ UNCHANGED <<storage_peers, dispatcher_queue, uwLocals, uw_logged,
                                 up_trace>>
             [] updates.kind \in {"Updates", "UpdatesCombined"} ->
                  \/ LET h == Harvest(storage_peers, updates)
                         users == DictUpdate({}, updates.users)
                         chats == DictUpdate({}, updates.chats)
                         run == RunUpdates(updates.updates, 1, h.is_min, users, chats,
                                           dispatcher_queue)
                     IN  /\ storage_peers' = h.store
                         /\ dispatcher_queue' = run.dq
                         /\ up_trace' = Sourced(Taken(up_trace, Len(updates.updates)),
                                                updates,
                                                Len(run.dq) - Len(dispatcher_queue),
                                                "none")
                         /\ IF run.idx = 0
                            THEN WorkerLoops(w)
                            ELSE /\ uw_pc' = [uw_pc EXCEPT ![w] = "chandiff"]
                                 /\ uw_env' = [uw_env EXCEPT ![w] = updates]
                                 /\ uw_idx' = [uw_idx EXCEPT ![w] = run.idx]
                                 /\ uw_is_min' = [uw_is_min EXCEPT ![w] = h.is_min]
                                 /\ uw_users' = [uw_users EXCEPT ![w] = users]
                                 /\ uw_chats' = [uw_chats EXCEPT ![w] = chats]
                         /\ UNCHANGED uw_logged
                  \/ /\ WorkerLogs(w)       \* the harvest raises (storage error)
                     /\ up_trace' = Taken(up_trace, Len(updates.updates))
                     /\ UNCHANGED <<storage_peers, dispatcher_queue>>
             [] updates.kind \in {"UpdateShortMessage", "UpdateShortChatMessage"} ->
                  /\ uw_pc' = [uw_pc EXCEPT ![w] = "getdiff"]
                  /\ uw_env' = [uw_env EXCEPT ![w] = updates]
                  /\ up_trace' = [Taken(up_trace, 1) EXCEPT !.requested = @ + 1]
                  /\ UNCHANGED <<storage_peers, dispatcher_queue, uw_idx, uw_is_min,
                                 uw_users, uw_chats, uw_logged>>
             [] updates.kind = "UpdateShort" ->
                  /\ dispatcher_queue' =
                        Append(dispatcher_queue, Forwarded(updates.updates[1], {}, {}))
                  /\ up_trace' = Sourced(Taken(up_trace, 1), updates, 1, "none")
                  /\ WorkerLoops(w)
                  /\ UNCHANGED <<storage_peers, uw_logged>>
             [] OTHER ->                    \* UpdatesTooLong: log.warning
                  /\ WorkerLoops(w)
                  /\ UNCHANGED <<storage_peers, dispatcher_queue, uw_logged, up_trace>>
    /\ UNCHANGED upEnv
    /\ UNCHANGED notUp

\* 907-928: resolve_peer and the corrective GetChannelDifference return or raise
UpdatesWorkerChannelDiff(w) ==
    /\ uw_pc[w] = "chandiff"
    /\ \/ /\ WorkerLogs(w)                  \* resolve_peer raises: nothing is sent
          /\ UNCHANGED <<storage_peers, dispatcher_queue, up_trace>>
       \/ /\ WorkerLogs(w)                  \* send raises another error
          /\ up_trace' = [up_trace EXCEPT !.corrective =
                @ \cup {CorrectiveRequest(uw_env[w].updates[uw_idx[w]], uw_env[w])}]
          /\ UNCHANGED <<storage_peers, dispatcher_queue>>
       \/ \E outcome \in ChannelDifferences :
            LET got == ~outcome.private /\ ~outcome.empty
                users == IF got THEN DictUpdate(uw_users[w], outcome.users) ELSE uw_users[w]
                chats == IF got THEN DictUpdate(uw_chats[w], outcome.chats) ELSE uw_chats[w]
                dq == ForwardAfterDiff(dispatcher_queue,
                          Forwarded(uw_env[w].updates[uw_idx[w]], users, chats))
                run == RunUpdates(uw_env[w].updates, uw_idx[w] + 1, uw_is_min[w],
                                  users, chats, dq)
            IN  /\ storage_peers' = IF outcome.private THEN storage_peers
                                    ELSE SendHarvest(storage_peers, outcome)
                /\ dispatcher_queue' = run.dq
                /\ up_trace' =
                      [Sourced(up_trace, uw_env[w], Len(run.dq) - Len(dispatcher_queue),
                               AnswerOf(outcome))
                       EXCEPT !.corrective = @ \cup
                          {CorrectiveRequest(uw_env[w].updates[uw_idx[w]], uw_env[w])}]
                /\ IF run.idx = 0
                   THEN WorkerLoops(w)
                   ELSE /\ uw_idx' = [uw_idx EXCEPT ![w] = run.idx]
                        /\ uw_users' = [uw_users EXCEPT ![w] = users]
                        /\ uw_chats' = [uw_chats EXCEPT ![w] = chats]
                        /\ UNCHANGED <<uw_pc, uw_env, uw_is_min>>
                /\ UNCHANGED uw_logged
    /\ UNCHANGED <<updates_queue, upEnv>>
    /\ UNCHANGED notUp

\* 930-949: the GetDifference of a short message returns or raises
UpdatesWorkerDifference(w) ==
    /\ uw_pc[w] = "getdiff"
    /\ \/ /\ WorkerLogs(w)                  \* send raises
          /\ UNCHANGED <<storage_peers, dispatcher_queue, up_trace>>
       \/ \E diff \in Differences :
            /\ storage_peers' = SendHarvest(storage_peers, diff)
            /\ up_trace' =
                  Sourced([up_trace EXCEPT !.answered = @ + 1], uw_env[w],
                          IF diff.new_messages = <<>> /\ diff.other_updates = <<>>
                          THEN 0 ELSE 1, "Difference")
            /\ IF diff.new_messages # <<>>
               THEN /\ dispatcher_queue' =
                          Append(dispatcher_queue,
                                 Forwarded(diff.new_messages[1], DictUpdate({}, diff.users),
                                           DictUpdate({}, diff.chats)))
                    /\ WorkerLoops(w)
                    /\ UNCHANGED uw_logged
               ELSE IF diff.other_updates # <<>>
               THEN /\ dispatcher_queue' =
                          Append(dispatcher_queue, Forwarded(diff.other_updates[1], {}, {}))
                    /\ WorkerLoops(w)
                    /\ UNCHANGED uw_logged
               ELSE /\ WorkerLogs(w)        \* diff.other_updates[0]: IndexError
                    /\ UNCHANGED dispatcher_queue
    /\ UNCHANGED <<updates_queue, upEnv>>
    /\ UNCHANGED notUp

\* a started client: the update worker tasks wait on the queue
InitUpdates ==
    /\ InitGetFileIdle
    /\ InitSaveFileIdle
    /\ InitStopIdle
    /\ InitAuthIdle /\ InitResolveIdle /\ InitPeerIdIdle /\ InitEtcIdle
    /\ UpdatesFresh
    /\ fp_pc = "off"
    /\ uw_pc = [w \in UWorkers |-> "get"]

NextUpdates ==
    \/ UpdatesPush
    \/ UpdatesStopSignal
    \/ \E w \in UWorkers :
        \/ UpdatesWorkerGet(w)
        \/ UpdatesWorkerChannelDiff(w)
        \/ UpdatesWorkerDifference(w)

SpecUpdates == InitUpdates /\ [][NextUpdates]_vars

\* ------------------------------------------------------------------ stop
gfCallers == <<storage_dc_id, media_sessions_lock, gf_active, net_data, gf_pc, gf_dc,
               gf_progress, gf_session, gf_cdn, gf_r, gf_offset, gf_chunk, gf_file,
               gf_result, gf_mismatch, gf_requests>>
upRest == <<storage_peers, fp_pc, fp_peers, fp_result, dispatcher_queue, up_pushes,
            uw_pc, uwLocals, uw_logged, up_trace>>

\* `await task` returns once the task has completed
Joined_NoWait(pc) == TRUE
Joined(pc) == pc = "done"

\* 353-354: stop() is called
StopCall ==
    /\ stop_pc = "call"
    /\ stop_pc' = IF is_started THEN "prologue" ELSE "raised"   \* ConnectionError
    /\ UNCHANGED <<is_started, takeout_id, stop_i, download_queue, dl_sentinels, dw_pc,
                   dw_handled>>
    /\ UNCHANGED <<gfVars, sfVars, upVars, auVars, rpVars, piVars, etcVars>>

\* 356-364: FinishTakeoutSession, Syncer.remove, dispatcher.stop, then one None
\* per download worker
StopPrologue ==
    /\ stop_pc = "prologue"
    /\ \/ /\ takeout_id                     \* the FinishTakeoutSession send raises
          /\ stop_pc' = "raised"
          /\ UNCHANGED <<stop_i, download_queue, dl_sentinels>>
       \/ /\ download_queue' = download_queue \o [i \in 1..DOWNLOAD_WORKERS |-> None]
          /\ dl_sentinels' = dl_sentinels + (Len(download_queue') - Len(download_queue))
          /\ stop_pc' = "join_download"
          /\ stop_i' = 1
    /\ UNCHANGED <<is_started, takeout_id, dw_pc, dw_handled>>
    /\ UNCHANGED <<gfVars, sfVars, upVars, auVars, rpVars, piVars, etcVars>>

\* 366-374: `await task` for each download worker; after the last one, one None
\* per update worker
StopJoinDownload ==
    /\ stop_pc = "join_download"
    /\ Joined(dw_pc[stop_i])
    /\ IF stop_i < DOWNLOAD_WORKERS
       THEN /\ stop_i' = stop_i + 1
            /\ UNCHANGED <<stop_pc, updates_queue, up_sentinels>>
       ELSE /\ PutUpdateSentinels
            /\ stop_pc' = "join_updates"
            /\ stop_i' = 1
    /\ UNCHANGED <<is_started, takeout_id, download_queue, dl_sentinels, dw_pc, dw_handled>>
    /\ UNCHANGED <<gfVars, sfVars, upRest, auVars, rpVars, piVars, etcVars>>

\* 376-379: `await task` for each update worker
StopJoinUpdates ==
    /\ stop_pc = "join_updates"
    /\ Joined(uw_pc[stop_i])
    /\ IF stop_i < UPDATES_WORKERS
       THEN /\ stop_i' = stop_i + 1
            /\ UNCHANGED stop_pc
       ELSE /\ stop_pc' = "stop_media"
            /\ stop_i' = 0
    /\ UNCHANGED <<is_started, takeout_id, download_queue, dl_sentinels, dw_pc, dw_handled>>
    /\ UNCHANGED <<gfVars, sfVars, upVars, auVars, rpVars, piVars, etcVars>>

\* the registered media sessions stop() has not stopped yet
RunningMedia == {d \in DCs : media_sessions[d] # None /\ sessions[media_sessions[d]].started}

\* 383-384: `await media_session.stop()` for the next registered session
StopMediaSession ==
    /\ stop_pc = "stop_media"
    /\ RunningMedia # {}
    /\ LET d == CHOOSE x \in RunningMedia : \A y \in RunningMedia : x <= y
       IN  sessions' = [sessions EXCEPT ![media_sessions[d]].started = FALSE]
    /\ UNCHANGED <<media_sessions, gfCallers>>
    /\ UNCHANGED <<sfVars, upVars, stVars, auVars, rpVars, piVars, etcVars>>

\* 386-389: media_sessions.clear(), is_started = False, session.stop() begins
StopMediaDone ==
    /\ stop_pc = "stop_media"
    /\ RunningMedia = {}
    /\ media_sessions' = [d \in DCs |-> None]
    /\ is_started' = FALSE
    /\ stop_pc' = "session_stop"
    /\ UNCHANGED <<sessions, gfCallers>>
    /\ UNCHANGED <<takeout_id, stop_i, download_queue, dl_sentinels, dw_pc, dw_handled>>
    /\ UNCHANGED <<sfVars, upVars, auVars, rpVars, piVars, etcVars>>

\* 389-391: session.stop() is over, `return self`
StopReturn ==
    /\ stop_pc = "session_stop"
    /\ stop_pc' = "returned"
    /\ self_session' = [self_session EXCEPT !.started = FALSE]
    /\ UNCHANGED <<is_started, takeout_id, stop_i, download_queue, dl_sentinels, dw_pc,
                   dw_handled>>
    /\ UNCHANGED <<gfVars, sfVars, upVars, auVars, rpVars, piVars, sdVars, start_pc,
                   start_error, svVars, dwVars, tailVars>>

\* n jobs waiting on download_queue
Packets(n) == [i \in 1..n |-> Job + i - 1]

\* 829-832: a download worker dequeues a packet
DownloadWorkerGet(w) ==
    /\ dw_pc[w] = "get"
    /\ download_queue # <<>>
    /\ download_queue' = Tail(download_queue)
    /\ dw_packet' = [dw_packet EXCEPT ![w] = Head(download_queue)]
    /\ dw_pc' = [dw_pc EXCEPT ![w] = IF Head(download_queue) = None THEN "done" ELSE "busy"]
    /\ UNCHANGED <<is_started, takeout_id, stop_pc, stop_i, dl_sentinels, dw_handled>>
    /\ UNCHANGED <<gfVars, sfVars, upVars, auVars, rpVars, piVars, sdVars, startVars, svVars,
                   dl_jobs, tailVars>>

\* what `await self.get_file(...)` gives a worker: the temp file name (1701), ""
\* (1699) or an exception of the session set-up (1501-1532)
GetFileOutcomes == {"tmp", "", "raised"}
\* 856-859: os.makedirs, shutil.move; they can raise
MoveOutcomes(temp_file_path) == IF temp_file_path = "tmp" THEN BOOLEAN ELSE {FALSE}
\* the `except Exception` clause of 860 is entered
JobRaised(got, moved) == got = "raised" \/ (got = "tmp" /\ ~moved)
\* 867-870: the else clause, `path[0] = final_file_path or None`; 860-866 leave
\* path[0] alone
path0(cell, got, moved) ==
    IF JobRaised(got, moved) THEN cell
    ELSE IF got = "tmp" THEN "final" ELSE NoPath
\* 871-872: `finally: done.set()`
done_set(job, got, moved) == job.done + 1
\* the worker after the try statement: the loop goes on
AfterJob_Dies(got, moved) == IF JobRaised(got, moved) THEN "done" ELSE "get"
AfterJob(got, moved) == "get"

\* 837-872 as stop() sees them: however the job ends, the worker is back at the
\* queue; the job's gate and result cell are followed by DownloadWorkerRun
DownloadWorkerJob(w) ==
    /\ dw_pc[w] = "busy"
    /\ dw_pc' = [dw_pc EXCEPT ![w] = "get"]
    /\ dw_handled' = [dw_handled EXCEPT ![w] = @ + 1]
    /\ UNCHANGED <<is_started, takeout_id, stop_pc, stop_i, download_queue, dl_sentinels>>
    /\ UNCHANGED <<gfVars, sfVars, upVars, auVars, rpVars, piVars, etcVars>>

\* 837-872: the job's get_file returns or raises, the file is moved, path[0] is
\* assigned, done.set(); back to the loop
DownloadWorkerRun(w) ==
    /\ dw_pc[w] = "busy"
    /\ \E got \in GetFileOutcomes : \E moved \in MoveOutcomes(got) :
        /\ dl_jobs' = [dl_jobs EXCEPT ![dw_packet[w]] =
                          [done |-> done_set(@, got, moved),
                           path |-> path0(@.path, got, moved),
                           got |-> got, moved |-> moved]]
        /\ dw_pc' = [dw_pc EXCEPT ![w] = AfterJob(got, moved)]
    /\ dw_handled' = [dw_handled EXCEPT ![w] = @ + 1]
    /\ UNCHANGED <<is_started, takeout_id, stop_pc, stop_i, download_queue, dl_sentinels>>
    /\ UNCHANGED <<gfVars, sfVars, upVars, auVars, rpVars, piVars, sdVars, startVars, svVars,
                   dw_packet, tailVars>>

\* envelopes waiting on updates_queue when stop() is called
PendingEnvelopes ==
    SeqsUpTo({Env("Updates", <<UMin, UFull>>, <<ChanFull>>, <<Edit, NewMsg>>),
              Env("UpdateShortMessage", <<>>, <<>>, <<>>)}, MaxPending)

\* stop() is called on a client, started (its worker tasks wait on their queues,
\* jobs and envelopes pending) or not
InitStop ==
    /\ InitAuthIdle /\ InitResolveIdle /\ InitPeerIdIdle /\ InitSendIdle
    /\ InitSendVideoIdle /\ InitDownloadIdle /\ InitTailIdle
    /\ start_pc = "off"
    /\ start_error = "none"
    /\ InitCallers
    /\ gf_active = {}
    /\ net_data = FALSE
    /\ InitSaveFileIdle
    /\ UpdateLocalsFresh
    /\ fp_pc = "off"
    /\ stop_pc = "call"
    /\ stop_i = 0
    /\ dl_sentinels = 0
    /\ dw_handled = [w \in DWorkers |-> 0]
    /\ is_started \in BOOLEAN
    /\ self_session = [created |-> TRUE, started |-> is_started]
    /\ IF is_started
       THEN /\ takeout_id \in BOOLEAN
            /\ \/ InitNoSessions
               \/ /\ media_sessions = [d \in DCs |-> IF d = MaxDc THEN MediaId(1) ELSE None]
                  /\ sessions = [i \in SessionIds |->
                                    IF i = MediaId(1)
                                    THEN [created |-> TRUE, dc |-> MaxDc, is_cdn |-> FALSE,
                                          started |-> TRUE, authorized |-> TRUE]
                                    ELSE NoSession]
            /\ download_queue \in {Packets(n) : n \in 0..MaxPending}
            /\ updates_queue \in PendingEnvelopes
            /\ dw_pc = [w \in DWorkers |-> "get"]
            /\ uw_pc = [w \in UWorkers |-> "get"]
       ELSE /\ takeout_id = FALSE
            /\ InitNoSessions
            /\ download_queue = <<>>
            /\ updates_queue = <<>>
            /\ dw_pc = [w \in DWorkers |-> "off"]
            /\ uw_pc = [w \in UWorkers |-> "off"]

NextStop ==
    \/ StopCall
    \/ StopPrologue
    \/ StopJoinDownload
    \/ StopJoinUpdates
    \/ StopMediaSession
    \/ StopMediaDone
    \/ StopReturn
    \/ \E w \in DWorkers :
        \/ DownloadWorkerGet(w)
        \/ DownloadWorkerJob(w)
    \/ \E w \in UWorkers :
        \/ UpdatesWorkerGet(w)
        \/ UpdatesWorkerChannelDiff(w)
        \/ UpdatesWorkerDifference(w)

SpecStop == InitStop /\ [][NextStop]_vars

\* a started client with jobs on download_queue and its workers waiting on the
\* queues; stop() may be called at any moment
InitDownloadWorker ==
    /\ InitAuthIdle /\ InitResolveIdle /\ InitPeerIdIdle /\ InitEtcIdle
    /\ InitGetFileIdle
    /\ InitSaveFileIdle
    /\ UpdatesFresh
    /\ fp_pc = "off"
    /\ is_started = TRUE
    /\ takeout_id = FALSE
    /\ stop_pc = "call"
    /\ stop_i = 0
    /\ dl_sentinels = 0
    /\ dw_handled = [w \in DWorkers |-> 0]
    /\ download_queue \in {Packets(n) : n \in 1..(MaxPending + 1)}
    /\ dw_pc = [w \in DWorkers |-> "get"]
    /\ uw_pc = [w \in UWorkers |-> "get"]

NextDownloadWorker ==
    \/ StopCall
    \/ StopPrologue
    \/ StopJoinDownload
    \/ StopJoinUpdates
    \/ StopMediaDone
    \/ StopReturn
    \/ \E w \in DWorkers :
        \/ DownloadWorkerGet(w)
        \/ DownloadWorkerRun(w)
    \/ \E w \in UWorkers : UpdatesWorkerGet(w)

SpecDownloadWorker == InitDownloadWorker /\ [][NextDownloadWorker]_vars

\* ----------------------------------------------------------------- start
\* 285: `if self.is_started`
AlreadyStarted_Never(flag) == FALSE
AlreadyStarted(flag) == flag

stNoFlags == <<stop_pc, stop_i, download_queue, dl_sentinels, dw_handled>>
gfNoDc == <<media_sessions, media_sessions_lock, sessions, gf_active, net_data, gf_pc,
            gf_dc, gf_progress, gf_session, gf_cdn, gf_r, gf_offset, gf_chunk, gf_file,
            gf_result, gf_mismatch, gf_requests>>
auNoSelf == <<storage_user_id, storage_is_bot, au_pc, au_given, au_force_sms, au_local,
              au_request, au_reply, au_errors, au_log, au_mark, au_error>>

\* 285-289: start() is called; load_config(), then `await self.load_session()`
StartCall ==
    /\ start_pc = "call"
    /\ IF AlreadyStarted(is_started)
       THEN start_pc' = "raised" /\ start_error' = "ConnectionError"
       ELSE start_pc' = "load_session" /\ UNCHANGED start_error
    /\ UNCHANGED <<self_session, sdVars, svVars, dwVars, tailVars>>
    /\ UNCHANGED <<gfVars, sfVars, upVars, stVars, auVars, rpVars, piVars>>

\* 1076-1093, 290-294: load_session() has made an empty session (one without a
\* user id) a new one on data center 1; load_plugins(), the primary session is
\* created on storage.dc_id, `await self.session.start()`
StartLoaded ==
    /\ start_pc = "load_session"
    /\ storage_dc_id' = IF storage_user_id = None THEN 1 ELSE storage_dc_id
    /\ au_self' = [au_self EXCEPT !.session_dc = storage_dc_id']
    /\ self_session' = [created |-> TRUE, started |-> FALSE]
    /\ start_pc' = "session_start"
    /\ UNCHANGED <<start_error, sdVars, svVars, dwVars, tailVars>>
    /\ UNCHANGED <<gfNoDc, sfVars, upVars, stVars, auNoSelf, rpVars, piVars>>

\* 294-321: session.start() returns, is_started = True and the try block runs up
\* to its first await; or session.start() raises
StartSessionStarted ==
    /\ start_pc = "session_start"
    /\ \/ /\ self_session' = [self_session EXCEPT !.started = TRUE]
          /\ is_started' = TRUE
          /\ start_pc' = "try"
          /\ UNCHANGED start_error
       \/ /\ start_pc' = "raised"
          /\ start_error' = "Exception"
          /\ UNCHANGED <<self_session, is_started>>
    /\ UNCHANGED <<takeout_id, stNoFlags, dw_pc, sdVars, svVars, dwVars, tailVars>>
    /\ UNCHANGED <<gfVars, sfVars, upVars, auVars, rpVars, piVars>>

\* 297-341: the requests of the try block are answered (a takeout session may
\* have been initiated); the worker tasks are created, `await self.dispatcher.start()`
StartTried ==
    /\ start_pc = "try"
    /\ storage_user_id # None
    /\ takeout_id' \in {takeout_id, TRUE}
    /\ uw_pc' = [w \in UWorkers |-> "get"]
    /\ dw_pc' = [w \in DWorkers |-> "get"]
    /\ start_pc' = "dispatcher_start"
    /\ UNCHANGED <<is_started, stNoFlags, self_session, start_error, sdVars, svVars, dwVars, tailVars>>
    /\ UNCHANGED <<storage_peers, fp_pc, fp_peers, fp_result, dispatcher_queue, up_pushes,
                   uwLocals, uw_logged, up_trace, updates_queue, up_sentinels>>
    /\ UNCHANGED <<gfVars, sfVars, auVars, rpVars, piVars>>

\* 322-324: a request of the try block raises: the error is caught as e,
\* is_started = False, `await self.session.stop()`
StartTryFailed ==
    /\ start_pc = "try"
    /\ storage_user_id # None
    /\ is_started' = FALSE
    /\ takeout_id' \in {takeout_id, TRUE}     \* set at 306 before a later request raises
    /\ start_pc' = "session_stop"
    /\ start_error' = "Exception"
    /\ UNCHANGED <<stNoFlags, dw_pc, self_session, sdVars, svVars, dwVars, tailVars>>
    /\ UNCHANGED <<gfVars, sfVars, upVars, auVars, rpVars, piVars>>

StartFailed_NoStop ==
    /\ start_pc = "session_stop"
    /\ start_pc' = "raised"
    /\ UNCHANGED <<self_session, start_error, sdVars, svVars, dwVars, tailVars>>
    /\ UNCHANGED <<gfVars, sfVars, upVars, stVars, auVars, rpVars, piVars>>
\* 324-325: the session has stopped, `raise e`
StartFailed ==
    /\ start_pc = "session_stop"
    /\ self_session' = [self_session EXCEPT !.started = FALSE]
    /\ start_pc' = "raised"
    /\ UNCHANGED <<start_error, sdVars, svVars, dwVars, tailVars>>
    /\ UNCHANGED <<gfVars, sfVars, upVars, stVars, auVars, rpVars, piVars>>

\* 341-346: dispatcher.start() and Syncer.add() return, `return self`
StartReturn ==
    /\ start_pc = "dispatcher_start"
    /\ start_pc' = "returned"
    /\ UNCHANGED <<self_session, start_error, sdVars, svVars, dwVars, tailVars>>
    /\ UNCHANGED <<gfVars, sfVars, upVars, stVars, auVars, rpVars, piVars>>

\* start() or stop() is called on a client, started (its worker tasks wait on
\* their empty queues) or not
InitStart ==
    /\ InitAuthIdle /\ InitResolveIdle /\ InitPeerIdIdle /\ InitSendIdle
    /\ InitSendVideoIdle /\ InitDownloadIdle /\ InitTailIdle
    /\ InitCallers
    /\ gf_active = {}
    /\ net_data = FALSE
    /\ InitSaveFileIdle
    /\ UpdatesFresh
    /\ fp_pc = "off"
    /\ \E called \in {"start", "stop"} :
          /\ start_pc = IF called = "start" THEN "call" ELSE "off"
          /\ stop_pc = IF called = "stop" THEN "call" ELSE "off"
    /\ start_error = "none"
    /\ stop_i = 0
    /\ dl_sentinels = 0
    /\ dw_handled = [w \in DWorkers |-> 0]
    /\ download_queue = <<>>
    /\ is_started \in BOOLEAN
    /\ IF is_started
       THEN /\ takeout_id \in BOOLEAN
            /\ self_session = [created |-> TRUE, started |-> TRUE]
            /\ \/ InitNoSessions
               \/ /\ media_sessions = [d \in DCs |-> IF d = MaxDc THEN MediaId(1) ELSE None]
                  /\ sessions = [i \in SessionIds |->
                                    IF i = MediaId(1)
                                    THEN [created |-> TRUE, dc |-> MaxDc, is_cdn |-> FALSE,
                                          started |-> TRUE, authorized |-> TRUE]
                                    ELSE NoSession]
            /\ dw_pc = [w \in DWorkers |-> "get"]
            /\ uw_pc = [w \in UWorkers |-> "get"]
       ELSE /\ takeout_id = FALSE
            /\ self_session \in {[created |-> FALSE, started |-> FALSE],
                                 [created |-> TRUE, started |-> FALSE]}
            /\ InitNoSessions
            /\ dw_pc \in {[w \in DWorkers |-> "off"], [w \in DWorkers |-> "done"]}
            /\ uw_pc = [w \in UWorkers |-> IF dw_pc[1] = "off" THEN "off" ELSE "done"]

NextStart ==
    \/ StartCall
    \/ StartLoaded
    \/ StartSessionStarted
    \/ StartTried
    \/ StartTryFailed
    \/ StartFailed
    \/ StartReturn
    \/ StopCall
    \/ StopPrologue
    \/ StopJoinDownload
    \/ StopJoinUpdates
    \/ StopMediaSession
    \/ StopMediaDone
    \/ StopReturn
    \/ \E w \in DWorkers : DownloadWorkerGet(w)
    \/ \E w \in UWorkers : UpdatesWorkerGet(w)

SpecStart == InitStart /\ [][NextStart]_vars

\* ------------------------------------------------- overlapping start() calls
ovShared == <<takeout_id, stNoFlags, storage_peers, fp_pc, fp_peers, fp_result,
              dispatcher_queue, up_pushes, uwLocals, uw_logged, up_trace, updates_queue,
              up_sentinels, start_pc, start_error>>
\* call k ends raising `error`
OverlapRaise(k, error) ==
    /\ o_pc' = [o_pc EXCEPT ![k] = "raised"]
    /\ o_error' = [o_error EXCEPT ![k] = error]

\* 290-294: load_plugins(), `self.session = Session(...)`, `await self.session.start()`
OverlapSession(k) ==
    /\ self_session' = [created |-> TRUE, started |-> FALSE]
    /\ o_created' = [o_created EXCEPT ![k] = TRUE]
    /\ o_pc' = [o_pc EXCEPT ![k] = "session_start"]

\* 285-294: call k begins: the check of is_started, load_config(), then
\* `await self.load_session()`, which awaits the creation of an auth key when
\* the session is empty (1086-1091) and otherwise goes on to the primary session
OverlapCall(k) ==
    /\ o_pc[k] = "call"
    /\ IF AlreadyStarted(is_started)
       THEN OverlapRaise(k, "ConnectionError") /\ UNCHANGED <<o_created, self_session>>
       ELSE IF storage_user_id = None
       THEN /\ o_pc' = [o_pc EXCEPT ![k] = "load_session"]
            /\ UNCHANGED <<o_error, o_created, self_session>>
       ELSE OverlapSession(k) /\ UNCHANGED o_error
    /\ UNCHANGED <<o_pooled, storage_user_id, is_started, uw_pc, dw_pc, ovShared>>
    /\ UNCHANGED notOv

\* 1090-1093, 290-294: the auth key is there; the primary session
OverlapLoaded(k) ==
    /\ o_pc[k] = "load_session"
    /\ OverlapSession(k)
    /\ UNCHANGED <<o_error, o_pooled, storage_user_id, is_started, uw_pc, dw_pc, ovShared>>
    /\ UNCHANGED notOv

\* 294-295: session.start() returns and `self.is_started = True`, or it raises
OverlapSessionStarted(k) ==
    /\ o_pc[k] = "session_start"
    /\ \/ /\ self_session' = [self_session EXCEPT !.started = TRUE]
          /\ is_started' = TRUE
          /\ o_pc' = [o_pc EXCEPT ![k] = "try"]
          /\ UNCHANGED o_error
       \/ /\ OverlapRaise(k, "Exception")
          /\ UNCHANGED <<self_session, is_started>>
    /\ UNCHANGED <<o_created, o_pooled, storage_user_id, uw_pc, dw_pc, ovShared>>
    /\ UNCHANGED notOv

\* 297-341: the try block ends (the client authorized, if it was not), the
\* worker tasks are created and `await self.dispatcher.start()`; or a request
\* of the try block raises: is_started = False, `await self.session.stop()`
OverlapTried(k) ==
    /\ o_pc[k] = "try"
    /\ \/ /\ storage_user_id' = IF storage_user_id = None THEN UserId ELSE storage_user_id
          /\ uw_pc' = [w \in UWorkers |-> "get"]
          /\ dw_pc' = [w \in DWorkers |-> "get"]
          /\ o_pooled' = [o_pooled EXCEPT ![k] = TRUE]
          /\ o_pc' = [o_pc EXCEPT ![k] = "dispatcher_start"]
          /\ UNCHANGED <<o_error, is_started>>
       \/ /\ is_started' = FALSE
          /\ o_pc' = [o_pc EXCEPT ![k] = "session_stop"]
          /\ o_error' = [o_error EXCEPT ![k] = "Exception"]
          /\ storage_user_id' \in {storage_user_id, UserId}
          /\ UNCHANGED <<o_pooled, uw_pc, dw_pc>>
    /\ UNCHANGED <<o_created, self_session, ovShared>>
    /\ UNCHANGED notOv

\* 324-325: the session has stopped, `raise e`
OverlapFailed(k) ==
    /\ o_pc[k] = "session_stop"
    /\ self_session' = [self_session EXCEPT !.started = FALSE]
    /\ o_pc' = [o_pc EXCEPT ![k] = "raised"]
    /\ UNCHANGED <<o_error, o_created, o_pooled, storage_user_id, is_started, uw_pc, dw_pc,
                   ovShared>>
    /\ UNCHANGED notOv

\* 341-346: dispatcher.start() and Syncer.add() return, `return self`
OverlapReturn(k) ==
    /\ o_pc[k] = "dispatcher_start"
    /\ o_pc' = [o_pc EXCEPT ![k] = "returned"]
    /\ UNCHANGED <<o_error, o_created, o_pooled, storage_user_id, is_started, self_session,
                   uw_pc, dw_pc, ovShared>>
    /\ UNCHANGED notOv

\* start() is called MaxStartCallers times on a client that is not started
\* (new, or left by a start() that failed), by tasks that may interleave at
\* every await
InitOverlap ==
    /\ storage_user_id \in {None, UserId}
    /\ InitAuthOff /\ InitResolveIdle /\ InitPeerIdIdle /\ InitSendIdle
    /\ InitSendVideoIdle /\ InitDownloadIdle
    /\ InitFileIdIdle /\ InitSendMessageIdle /\ InitStartCallsIdle /\ InitUnverified
    /\ InitCallers
    /\ InitNoSessions
    /\ gf_active = {}
    /\ net_data = FALSE
    /\ InitSaveFileIdle
    /\ InitUpdatesIdle
    /\ start_pc = "off"
    /\ start_error = "none"
    /\ stop_pc = "off"
    /\ stop_i = 0
    /\ dl_sentinels = 0
    /\ dw_handled = [w \in DWorkers |-> 0]
    /\ dw_pc = [w \in DWorkers |-> "off"]
    /\ download_queue = <<>>
    /\ is_started = FALSE
    /\ takeout_id = FALSE
    /\ self_session \in {[created |-> FALSE, started |-> FALSE],
                         [created |-> TRUE, started |-> FALSE]}
    /\ o_pc = [k \in StartCallers |-> "call"]
    /\ o_error = [k \in StartCallers |-> "none"]
    /\ o_created = [k \in StartCallers |-> FALSE]
    /\ o_pooled = [k \in StartCallers |-> FALSE]

NextOverlap ==
    \/ \E k \in StartCallers : OverlapCall(k)
    \/ \E k \in StartCallers : OverlapLoaded(k)
    \/ \E k \in StartCallers : OverlapSessionStarted(k)
    \/ \E k \in StartCallers : OverlapTried(k)
    \/ \E k \in StartCallers : OverlapFailed(k)
    \/ \E k \in StartCallers : OverlapReturn(k)

SpecOverlap == InitOverlap /\ [][NextOverlap]_vars

\* -------------------------------------------------------- authorize_user
\* what authorize_user() and authorize_bot() never assign
auConfig == <<storage_is_bot, au_given, au_force_sms>>

\* 539-542: `self.x is not None`
IsNotNone_Never(v) == FALSE
IsNotNone(v) == v # None

\* `prompt if self.x is None else str(await self.x()) if callable(self.x) else
\* str(self.x)`: the value obtained, and whether a prompt or a callback gave it
Obtain(v, answers) ==
    IF v = None THEN {[v |-> a, prompts |-> 1, calls |-> 0] : a \in answers}
    ELSE IF v = Callable THEN {[v |-> a, prompts |-> 0, calls |-> 1] : a \in answers}
    ELSE {[v |-> v, prompts |-> 0, calls |-> 0]}

\* `await self.send(fn(args))` after obtaining values
Send(fn, args, prompts, calls) ==
    /\ au_request' = [fn |-> fn, args |-> args]
    /\ au_log' = [au_log EXCEPT !.sent = @ + 1, !.prompts = @ + prompts,
                                !.calls = @ + calls]

\* the answers the network gives a bounded number of times
Counted(kind) == kind \notin {"result", "SessionPasswordNeeded"}

\* the errors that name another data center
MigrateErrors == {"PhoneMigrate", "NetworkMigrate", "UserMigrate"}
\* the errors no `except` clause names: they reach `except Exception` (593, 744,
\* 732) or no handler at all (607-613, 750)
Others(handled) == [kind : {"RPCError"}, x : {0}] \cup
                   [kind : MigrateErrors \ handled, x : DCs]

\* the requests whose result is an authorization, and the user ids it may carry
Authorizations == {"SignIn", "SignUp", "CheckPassword", "RecoverPassword",
                   "ImportBotAuthorization"}
UserIds == 1..MaxUserId
Authorizes(kind) == kind = "result" /\ au_request.fn \in Authorizations

\* `r = await self.send(...)`: r holds the result of the request
Returned(x) == [fn |-> au_request.fn, user |-> x]

\* the awaited send returns (kind "result") or raises the error `kind`
Answer(kind, x) ==
    /\ Counted(kind) => au_errors < MaxErrors
    /\ au_errors' = IF Counted(kind) THEN au_errors + 1 ELSE au_errors
    /\ au_reply' = [kind |-> kind, x |-> x]
    /\ au_mark' = [log |-> au_log, request |-> au_request, self |-> au_self,
                   by |-> IF Authorizes(kind) THEN au_request.fn ELSE au_mark.by,
                   user |-> IF Authorizes(kind) THEN x ELSE au_mark.user]

\* `raise`: the error leaves authorize_user()
Raise(kind) ==
    /\ au_pc' = "raised"
    /\ au_error' = kind
    /\ UNCHANGED <<storage_user_id, au_self, au_local, au_request, au_log>>

\* `self.x = None` after a rejection
Forget_Keep(fields) == au_self' = au_self
Forget(fields) == au_self' = [f \in DOMAIN au_self |-> IF f \in fields THEN None ELSE au_self[f]]

\* `print(e.MESSAGE)`
Printed(log) == [log EXCEPT !.printed = @ + 1]
\* `await asyncio.sleep(e.x)`
Sleep_Skipped(log, x) == log
Sleep(log, x) == [log EXCEPT !.sleeps = @ + 1, !.slept = @ + x]

\* a rejected value: raise if it was passed to Client(), else print and forget it
Rejected(raises, kind, fields, back) ==
    IF raises THEN Raise(kind)
    ELSE /\ au_pc' = back
         /\ Forget(fields)
         /\ au_log' = Printed(au_log)
         /\ UNCHANGED <<storage_user_id, au_local, au_request, au_error>>

\* 750-760: AcceptTermsOfService if there are terms, else the epilogue
Finish_KeepPassword ==
    /\ au_pc' = "done"
    /\ au_self' = au_self
    /\ storage_user_id' = au_local'.r.user
    /\ UNCHANGED <<au_request, au_log>>
Finish ==
    /\ au_pc' = "done"
    /\ au_self' = [au_self EXCEPT !.password = None]
    /\ storage_user_id' = au_local'.r.user
    /\ UNCHANGED <<au_request, au_log>>
Proceed_SetsUserIdFirst ==
    IF au_local.terms_of_service
    THEN /\ au_pc' = "accept_tos"
         /\ Send("AcceptTermsOfService", <<>>, 0, 0)
         /\ storage_user_id' = au_local'.r.user
         /\ UNCHANGED au_self
    ELSE Finish
Proceed ==
    IF au_local.terms_of_service
    THEN /\ au_pc' = "accept_tos"
         /\ Send("AcceptTermsOfService", <<>>, 0, 0)
         /\ UNCHANGED <<storage_user_id, au_self>>
    ELSE Finish

\* 573-580: stop the session, set storage.dc_id, create an auth key, start a new
\* Session on that data center
MigrateTo_Stay(x) == UNCHANGED <<storage_dc_id, au_self, au_log>>
MigrateTo(x) ==
    /\ storage_dc_id' = x
    /\ au_self' = [au_self EXCEPT !.session_dc = x]
    /\ au_log' = [au_log EXCEPT !.stopped = @ + 1, !.keys = @ + 1, !.started = @ + 1]

\* start(), 298-304: storage.user_id is None: authorize_user() (538-542) or
\* authorize_bot() is called
AuthCall ==
    /\ au_pc = "call"
    /\ storage_user_id = None
    /\ IF au_self.bot_token = None
       THEN /\ storage_is_bot' = FALSE
            /\ au_pc' = "phone"
            /\ au_local' = [au_local EXCEPT
                    !.phone_number_invalid_raises = IsNotNone(au_self.phone_number),
                    !.phone_code_invalid_raises = IsNotNone(au_self.phone_code),
                    !.password_invalid_raises = IsNotNone(au_self.password),
                    !.first_name_invalid_raises = IsNotNone(au_self.first_name)]
       ELSE /\ storage_is_bot' = TRUE
            /\ au_pc' = "bot"
            /\ au_local' = au_local
    /\ UNCHANGED <<storage_user_id, au_given, au_force_sms, au_self, au_request, au_reply,
                   au_errors, au_log, au_mark, au_error>>
    /\ UNCHANGED notAu

\* 515-523: authorize_bot() sends ImportBotAuthorization
AuthBotImport ==
    /\ au_pc = "bot"
    /\ Send("ImportBotAuthorization", <<au_self.bot_token>>, 0, 0)
    /\ au_pc' = "import_bot"
    /\ UNCHANGED <<storage_user_id, auConfig, au_self, au_local, au_reply, au_errors,
                   au_mark, au_error>>
    /\ UNCHANGED notAu

\* 535-536: ImportBotAuthorization returned: `self.storage.user_id = r.user.id`
AuthBotImported ==
    /\ au_pc = "import_bot"
    /\ \E x \in UserIds :
        /\ Answer("result", x)
        /\ storage_user_id' = x
    /\ au_pc' = "done"
    /\ UNCHANGED <<auConfig, au_self, au_local, au_request, au_log, au_error>>
    /\ UNCHANGED notAu

\* 524-534: UserMigrate: move to data center e.x and call authorize_bot() again
AuthBotMigrate ==
    /\ au_pc = "import_bot"
    /\ \E x \in DCs :
        /\ Answer("UserMigrate", x)
        /\ MigrateTo(x)
    /\ au_pc' = "bot"
    /\ UNCHANGED <<storage_user_id, auConfig, au_local, au_request, au_error>>
    /\ UNCHANGED <<gfNoDc, sfVars, upVars, stVars, rpVars, piVars, etcVars>>

\* 515-524: any other error of ImportBotAuthorization leaves authorize_bot()
AuthBotFailed ==
    /\ au_pc = "import_bot"
    /\ \E e \in Others({"UserMigrate"}) :
        /\ Answer(e.kind, e.x)
        /\ Raise(e.kind)
    /\ UNCHANGED auConfig
    /\ UNCHANGED notAu

\* 555-571: obtain the phone number and send SendCode
AuthSendCode ==
    /\ au_pc = "phone"
    /\ \E o \in Obtain(au_self.phone_number, {Val}) :
        /\ au_self' = [au_self EXCEPT !.phone_number = o.v]
        /\ Send("SendCode", <<o.v>>, o.prompts, o.calls)
    /\ au_pc' = "send_code"
    /\ UNCHANGED <<storage_user_id, auConfig, au_local, au_reply, au_errors, au_mark,
                   au_error>>
    /\ UNCHANGED notAu

\* 596-613: SendCode returned; ResendCode if force_sms
AuthCodeSent ==
    /\ au_pc = "send_code"
    /\ Answer("result", 0)
    /\ \E registered \in BOOLEAN, terms \in BOOLEAN :
        au_local' = [au_local EXCEPT !.phone_registered = registered,
                                     !.terms_of_service = terms,
                                     !.phone_code_hash = au_log.sent,
                                     !.r = Returned(0)]
    /\ IF au_force_sms
       THEN /\ au_pc' = "resend_code"
            /\ Send("ResendCode", <<au_self.phone_number, au_log.sent>>, 0, 0)
       ELSE /\ au_pc' = "sign"
            /\ UNCHANGED <<au_request, au_log>>
    /\ UNCHANGED <<storage_user_id, auConfig, au_self, au_error>>
    /\ UNCHANGED notAu

\* 572-580: PhoneMigrate / NetworkMigrate: move to data center e.x and loop
AuthMigrate ==
    /\ au_pc = "send_code"
    /\ \E kind \in {"PhoneMigrate", "NetworkMigrate"}, x \in DCs :
        /\ Answer(kind, x)
        /\ MigrateTo(x)
    /\ au_pc' = "phone"
    /\ UNCHANGED <<storage_user_id, auConfig, au_local, au_request, au_error>>
    /\ UNCHANGED <<gfNoDc, sfVars, upVars, stVars, rpVars, piVars, etcVars>>

\* 581-586: the phone number is rejected
AuthPhoneRejected ==
    /\ au_pc = "send_code"
    /\ \E kind \in {"PhoneNumberInvalid", "PhoneNumberBanned"} :
        /\ Answer(kind, 0)
        /\ Rejected(au_local.phone_number_invalid_raises, kind, {"phone_number"}, "phone")
    /\ UNCHANGED auConfig
    /\ UNCHANGED notAu

\* 587-592: FloodWait on SendCode
AuthCodeFlood ==
    /\ au_pc = "send_code"
    /\ \E x \in 1..MaxWait :
        /\ Answer("FloodWait", x)
        /\ IF au_local.phone_number_invalid_raises
           THEN Raise("FloodWait")
           ELSE /\ au_pc' = "phone"
                /\ au_log' = Sleep(Printed(au_log), x)
                /\ UNCHANGED <<storage_user_id, au_self, au_local, au_request, au_error>>
    /\ UNCHANGED auConfig
    /\ UNCHANGED notAu

\* 593-595, 607-613: any other error of SendCode or ResendCode is raised
AuthCodeFailed ==
    /\ au_pc \in {"send_code", "resend_code"}
    /\ \E e \in Others(IF au_pc = "send_code" THEN {"PhoneMigrate", "NetworkMigrate"}
                       ELSE {}) :
        /\ Answer(e.kind, e.x)
        /\ Raise(e.kind)
    /\ UNCHANGED auConfig
    /\ UNCHANGED notAu

\* 607-613: ResendCode returned
AuthResent ==
    /\ au_pc = "resend_code"
    /\ Answer("result", 0)
    /\ au_pc' = "sign"
    /\ UNCHANGED <<storage_user_id, auConfig, au_self, au_local, au_request, au_log,
                   au_error>>
    /\ UNCHANGED notAu

\* 616-659: obtain the names (unregistered phone) and the phone code, send
\* SignIn or SignUp
AuthSign ==
    /\ au_pc = "sign"
    /\ \E c \in Obtain(au_self.phone_code, {Val}) :
        IF au_local.phone_registered
        THEN /\ au_self' = [au_self EXCEPT !.phone_code = c.v]
             /\ Send("SignIn", <<au_self.phone_number, au_local.phone_code_hash, c.v>>,
                     c.prompts, c.calls)
        ELSE \E f \in Obtain(au_self.first_name, {Val}),
                l \in Obtain(au_self.last_name, {Val}) :
                /\ au_self' = [au_self EXCEPT !.phone_code = c.v, !.first_name = f.v,
                                              !.last_name = l.v]
                /\ Send("SignUp", <<au_self.phone_number, au_local.phone_code_hash, c.v, f.v,
                                  l.v>>,
                        c.prompts + f.prompts + l.prompts, c.calls + f.calls + l.calls)
    /\ au_pc' = "signing"
    /\ UNCHANGED <<storage_user_id, auConfig, au_local, au_reply, au_errors, au_mark,
                   au_error>>
    /\ UNCHANGED notAu

\* 747-760: SignIn / SignUp returned the authorization
AuthSigned ==
    /\ au_pc = "signing"
    /\ \E x \in UserIds :
        /\ Answer("result", x)
        /\ au_local' = [au_local EXCEPT !.r = Returned(x)]
    /\ Proceed
    /\ UNCHANGED <<auConfig, au_error>>
    /\ UNCHANGED notAu

\* 646-648, 661-663: `phone_registered = ...; continue`
Flip_ForgetCode(registered) ==
    /\ au_local' = [au_local EXCEPT !.phone_registered = registered]
    /\ au_pc' = "sign"
    /\ au_self' = [au_self EXCEPT !.phone_code = None]
Flip(registered) ==
    /\ au_local' = [au_local EXCEPT !.phone_registered = registered]
    /\ au_pc' = "sign"
    /\ au_self' = au_self

\* 645-648, 660-663: the phone turns out unregistered / registered: switch
AuthFlip ==
    /\ au_pc = "signing"
    /\ Answer(IF au_local.phone_registered THEN "PhoneNumberUnoccupied"
              ELSE "PhoneNumberOccupied", 0)
    /\ Flip(~au_local.phone_registered)
    /\ UNCHANGED <<storage_user_id, auConfig, au_request, au_log, au_error>>
    /\ UNCHANGED notAu

\* 664-669: the phone code is rejected
AuthCodeRejected ==
    /\ au_pc = "signing"
    /\ \E kind \in {"PhoneCodeInvalid", "PhoneCodeEmpty", "PhoneCodeExpired",
                    "PhoneCodeHashEmpty"} :
        /\ Answer(kind, 0)
        /\ Rejected(au_local.phone_code_invalid_raises, kind, {"phone_code"}, "sign")
    /\ UNCHANGED auConfig
    /\ UNCHANGED notAu

\* 670-675: the first name is rejected
AuthNameRejected ==
    /\ au_pc = "signing"
    /\ au_request.fn = "SignUp"
    /\ Answer("FirstnameInvalid", 0)
    /\ Rejected(au_local.first_name_invalid_raises, "FirstnameInvalid", {"first_name"},
                "sign")
    /\ UNCHANGED auConfig
    /\ UNCHANGED notAu

\* 676-689: SessionPasswordNeeded: GetPassword is sent
AuthPasswordNeeded ==
    /\ au_pc = "signing"
    /\ Answer("SessionPasswordNeeded", 0)
    /\ au_pc' = "get_password"
    /\ au_request' = [fn |-> "GetPassword", args |-> <<>>]
    /\ au_log' = [Printed(au_log) EXCEPT !.sent = @ + 1]
    /\ UNCHANGED <<storage_user_id, auConfig, au_self, au_local, au_error>>
    /\ UNCHANGED notAu

\* 738-743: FloodWait on SignIn / SignUp
AuthSignFlood ==
    /\ au_pc = "signing"
    /\ \E x \in 1..MaxWait :
        /\ Answer("FloodWait", x)
        /\ IF au_local.phone_code_invalid_raises \/ au_local.first_name_invalid_raises
           THEN Raise("FloodWait")
           ELSE /\ au_pc' = "sign"
                /\ au_log' = Sleep(Printed(au_log), x)
                /\ UNCHANGED <<storage_user_id, au_self, au_local, au_request, au_error>>
    /\ UNCHANGED auConfig
    /\ UNCHANGED notAu

\* 744-746: any other error of SignIn / SignUp is raised
AuthSignFailed ==
    /\ au_pc = "signing"
    /\ \E e \in Others({}) :
        /\ Answer(e.kind, e.x)
        /\ Raise(e.kind)
    /\ UNCHANGED auConfig
    /\ UNCHANGED notAu

\* 689-716: GetPassword returned: obtain the password, then CheckPassword, or
\* RequestPasswordRecovery for an empty password
AuthPassword ==
    /\ au_pc = "get_password"
    /\ Answer("result", 0)
    /\ au_local' = [au_local EXCEPT !.r = Returned(0)]
    /\ \E o \in Obtain(au_self.password, {Val, Empty}) :
        /\ au_self' = [au_self EXCEPT !.password = o.v]
        /\ IF o.v = Empty
           THEN /\ au_pc' = "request_recovery"
                /\ Send("RequestPasswordRecovery", <<>>, o.prompts, o.calls)
           ELSE /\ au_pc' = "check_password"
                /\ Send("CheckPassword", <<o.v>>, o.prompts, o.calls)
    /\ UNCHANGED <<storage_user_id, auConfig, au_error>>
    /\ UNCHANGED notAu

\* 698-710: RequestPasswordRecovery returned: obtain the recovery code and send
\* RecoverPassword
AuthRecovery ==
    /\ au_pc = "request_recovery"
    /\ Answer("result", 0)
    /\ au_local' = [au_local EXCEPT !.r = Returned(0)]
    /\ \E o \in Obtain(au_self.recovery_code, {Val}) :
        /\ au_self' = [au_self EXCEPT !.recovery_code = o.v]
        /\ Send("RecoverPassword", <<o.v>>, o.prompts, o.calls)
    /\ au_pc' = "check_password"
    /\ UNCHANGED <<storage_user_id, auConfig, au_error>>
    /\ UNCHANGED notAu

PasswordStep == {"get_password", "request_recovery", "check_password"}

\* 735-737, 750-760: CheckPassword / RecoverPassword returned the authorization
AuthPasswordChecked ==
    /\ au_pc = "check_password"
    /\ \E x \in UserIds :
        /\ Answer("result", x)
        /\ au_local' = [au_local EXCEPT !.r = Returned(x)]
    /\ Proceed
    /\ UNCHANGED <<auConfig, au_error>>
    /\ UNCHANGED notAu

\* 717-723: the password or the recovery is rejected; GetPassword is sent again
AuthPasswordRejected ==
    /\ au_pc \in PasswordStep
    /\ \E kind \in {"PasswordEmpty", "PasswordRecoveryNa", "PasswordHashInvalid"} :
        /\ Answer(kind, 0)
        /\ IF au_local.password_invalid_raises
           THEN Raise(kind)
           ELSE /\ au_pc' = "get_password"
                /\ Forget({"password", "recovery_code"})
                /\ au_request' = [fn |-> "GetPassword", args |-> <<>>]
                /\ au_log' = [Printed(au_log) EXCEPT !.sent = @ + 1]
                /\ UNCHANGED <<storage_user_id, au_local, au_error>>
    /\ UNCHANGED auConfig
    /\ UNCHANGED notAu

\* 724-731: FloodWait in the password step: sleep, forget the password and the
\* recovery code; GetPassword is sent again
AuthPasswordFlood ==
    /\ au_pc \in PasswordStep
    /\ \E x \in 1..MaxWait :
        /\ Answer("FloodWait", x)
        /\ IF au_local.password_invalid_raises
           THEN Raise("FloodWait")
           ELSE /\ au_pc' = "get_password"
                /\ au_self' = [au_self EXCEPT !.password = None, !.recovery_code = None]
                /\ au_request' = [fn |-> "GetPassword", args |-> <<>>]
                /\ au_log' = [Sleep(Printed(au_log), x) EXCEPT !.sent = @ + 1]
                /\ UNCHANGED <<storage_user_id, au_local, au_error>>
    /\ UNCHANGED auConfig
    /\ UNCHANGED notAu

\* 732-734: any other error in the password step is raised
AuthPasswordFailed ==
    /\ au_pc \in PasswordStep
    /\ \E e \in Others({}) :
        /\ Answer(e.kind, e.x)
        /\ Raise(e.kind)
    /\ UNCHANGED auConfig
    /\ UNCHANGED notAu

\* 750-760: AcceptTermsOfService returned true, or failed
AuthTermsAccepted ==
    /\ au_pc = "accept_tos"
    /\ \/ /\ Answer("result", 0)
          /\ UNCHANGED <<au_local, au_error>>
          /\ Finish
       \/ /\ Answer("RPCError", 0)
          /\ Raise("RPCError")
    /\ UNCHANGED auConfig
    /\ UNCHANGED notAu

\* how a value was passed to Client()
Given(v) == IF v = None THEN "none" ELSE IF v = Callable THEN "callable" ELSE "fixed"

\* the ways of passing the values to Client()
AuthArgs ==
    /\ au_force_sms \in BOOLEAN
    /\ au_self \in [phone_number : {None, Callable, Val}, phone_code : {None, Callable, Val},
                    first_name : {None, Callable, Val}, last_name : {None, Val},
                    password : {None, Callable, Val, Empty},
                    recovery_code : {None, Callable}, bot_token : {None, Val},
                    session_dc : {1}]
    \* the last name is passed the way the first name is; force_sms is tried
    \* with nothing else passed
    /\ (au_self.last_name = None) = (au_self.first_name = None)
    /\ au_force_sms => \A f \in DOMAIN au_self \ {"session_dc"} : au_self[f] = None
    \* a bot is given its token and nothing else
    /\ au_self.bot_token # None =>
          \A f \in DOMAIN au_self \ {"session_dc", "bot_token"} : au_self[f] = None
    /\ storage_is_bot \in BOOLEAN
    /\ au_given = [f \in {"phone_number", "phone_code", "first_name", "password"} |->
                      Given(au_self[f])]

\* authorize_user() on a new session, for every way of passing the values
InitAuth ==
    /\ InitGetFileIdle
    /\ InitSaveFileIdle
    /\ InitUpdatesIdle
    /\ InitStopIdle
    /\ InitResolveIdle /\ InitPeerIdIdle /\ InitEtcIdle
    /\ storage_user_id = None
    /\ au_pc = "call"
    /\ AuthArgs
    /\ AuthFresh

NextAuth ==
    \/ AuthCall
    \/ AuthBotImport
    \/ AuthBotImported
    \/ AuthBotMigrate
    \/ AuthBotFailed
    \/ AuthSendCode
    \/ AuthCodeSent
    \/ AuthMigrate
    \/ AuthPhoneRejected
    \/ AuthCodeFlood
    \/ AuthCodeFailed
    \/ AuthResent
    \/ AuthSign
    \/ AuthSigned
    \/ AuthFlip
    \/ AuthCodeRejected
    \/ AuthNameRejected
    \/ AuthPasswordNeeded
    \/ AuthSignFlood
    \/ AuthSignFailed
    \/ AuthPassword
    \/ AuthRecovery
    \/ AuthPasswordChecked
    \/ AuthPasswordRejected
    \/ AuthPasswordFlood
    \/ AuthPasswordFailed
    \/ AuthTermsAccepted

SpecAuth == InitAuth /\ [][NextAuth]_vars

\* ------------------------------------------------- start() with authorization
notStartAuth == <<gfVars, sfVars, upVars, rpVars, piVars, sdVars, svVars, dwVars, fiVars,
                  smVars, cvVars, ovVars>>
auKept == <<storage_user_id, auConfig, au_self, au_local, au_request, au_reply, au_errors,
            au_log, au_mark>>

\* 297-304: storage.user_id is None: authorize_user() or authorize_bot() is awaited
StartAuthorize ==
    /\ start_pc = "try"
    /\ storage_user_id = None
    /\ start_pc' = "authorize"
    /\ au_pc' = "call"
    /\ au_error' = "none"
    /\ UNCHANGED <<auKept, self_session, start_error, stVars, scVars>>
    /\ UNCHANGED notStartAuth

\* 304-306: the authorization has returned; the try block goes on
StartAuthorized ==
    /\ start_pc = "authorize"
    /\ au_pc = "done"
    /\ start_pc' = "try"
    /\ au_pc' = "off"
    /\ UNCHANGED <<auKept, au_error, self_session, start_error, stVars, scVars>>
    /\ UNCHANGED notStartAuth

\* 322-324: the authorization has raised: the error is caught as e,
\* is_started = False, `await self.session.stop()`
StartAuthRaised ==
    /\ start_pc = "authorize"
    /\ au_pc = "raised"
    /\ is_started' = FALSE
    /\ start_pc' = "session_stop"
    /\ start_error' = au_error
    /\ au_pc' = "off"
    /\ UNCHANGED <<auKept, au_error, self_session, takeout_id, stNoFlags, dw_pc, scVars>>
    /\ UNCHANGED notStartAuth

\* start() is called again after it has returned or raised
StartAgain ==
    /\ start_pc \in {"returned", "raised"}
    /\ start_calls < MaxStarts
    /\ start_calls' = start_calls + 1
    /\ start_pc' = "call"
    /\ start_error' = "none"
    /\ UNCHANGED <<auVars, self_session, stVars>>
    /\ UNCHANGED notStartAuth

\* the values passed to Client(): the phone number, the code, the names and
\* the password, all of them not passed (prompted for), all callbacks or all
\* fixed values; or a bot token; force_sms is on when they are fixed values
StartArgs ==
    /\ \E how \in {None, Callable, Val}, token \in {None, Val} :
          au_self = [phone_number |-> how, phone_code |-> how, first_name |-> how,
                     last_name |-> IF how = None THEN None ELSE Val, password |-> how,
                     recovery_code |-> IF how = Callable THEN Callable ELSE None,
                     bot_token |-> token, session_dc |-> 1]
    /\ au_force_sms = (au_self.phone_code = Val)
    /\ au_self.bot_token # None =>
          \A f \in DOMAIN au_self \ {"session_dc", "bot_token"} : au_self[f] = None
    /\ storage_is_bot = FALSE
    /\ au_given = [f \in {"phone_number", "phone_code", "first_name", "password"} |->
                      Given(au_self[f])]

\* start() is called on a new client with an empty session
InitStartAuth ==
    /\ InitResolveIdle /\ InitPeerIdIdle /\ InitSendIdle
    /\ InitSendVideoIdle /\ InitDownloadIdle /\ InitFileIdIdle /\ InitSendMessageIdle
    /\ InitUnverified /\ InitOverlapIdle
    /\ InitCallers
    /\ InitNoSessions
    /\ gf_active = {}
    /\ net_data = FALSE
    /\ InitSaveFileIdle
    /\ InitUpdatesIdle
    /\ storage_user_id = None
    /\ au_pc = "off"
    /\ StartArgs
    /\ AuthFresh
    /\ start_pc = "call"
    /\ start_calls = 1
    /\ start_error = "none"
    /\ stop_pc = "off"
    /\ stop_i = 0
    /\ dl_sentinels = 0
    /\ dw_handled = [w \in DWorkers |-> 0]
    /\ dw_pc = [w \in DWorkers |-> "off"]
    /\ download_queue = <<>>
    /\ is_started = FALSE
    /\ takeout_id = FALSE
    /\ self_session = [created |-> FALSE, started |-> FALSE]

NextStartAuth ==
    \/ StartCall
    \/ StartLoaded
    \/ StartSessionStarted
    \/ StartAuthorize
    \/ StartAuthorized
    \/ StartAuthRaised
    \/ StartTried
    \/ StartTryFailed
    \/ StartFailed
    \/ StartReturn
    \/ StartAgain
    \/ NextAuth

SpecStartAuth == InitStartAuth /\ [][NextStartAuth]_vars

\* ------------------------------------------------------ utils, resolve_peer
\* None and 0 are falsy
Truthy(access_hash) == access_hash \notin {0, NoneHash}

\* the first three digits of m (m itself below 1000)
RECURSIVE Lead3(_)
Lead3(m) == IF m < 1000 THEN m ELSE Lead3(m \div 10)
\* str(peer_id).startswith("-100")
StartsWithMinus100(peer_id) == peer_id < 0 /\ Lead3(-peer_id) = 100
\* int(str(peer_id)[4:]) for a peer_id that starts with "-100" and has more digits
After100(peer_id) == (-peer_id) % (Shift10(-peer_id) \div 1000)

ValueError == [type |-> "ValueError"]

\* utils.get_peer_id(input_peer)
get_peer_id(input_peer) ==
    IF input_peer.type = "InputPeerUser" THEN input_peer.user_id
    ELSE IF input_peer.type = "InputPeerChat" THEN -input_peer.chat_id
    ELSE ChannelPeerId(input_peer.channel_id)

\* utils.get_input_peer(peer_id, access_hash); int("") raises ValueError
get_input_peer(peer_id, access_hash) ==
    IF peer_id > 0
    THEN [type |-> "InputPeerUser", user_id |-> peer_id, access_hash |-> access_hash]
    ELSE IF StartsWithMinus100(peer_id) /\ Truthy(access_hash)
    THEN IF peer_id = -100 THEN ValueError
         ELSE [type |-> "InputPeerChannel", channel_id |-> After100(peer_id),
               access_hash |-> access_hash]
    ELSE [type |-> "InputPeerChat", chat_id |-> -peer_id]

\* identifiers: an int, or a str written as the sequence of its characters
IntId(n) == [type |-> "int", int |-> n, str |-> <<>>]
StrId(s) == [type |-> "str", int |-> 0, str |-> s]
DigitChars == {"0", "1", "2", "3", "4", "5", "6", "7", "8", "9"}
\* str.lower() on the characters of the model
LowerChar(c) == IF c = "A" THEN "a" ELSE IF c = "B" THEN "b" ELSE c
\* re.sub(r"[@+\s]", "", peer_id.lower())
Dropped(c) == c \in {"@", "+", " "}
Normalised(s) == SelectSeq([i \in 1..Len(s) |-> LowerChar(s[i])], LAMBDA c : ~Dropped(c))
\* int(peer_id) does not raise ValueError
ParsesAsInt(s) ==
    LET digits == IF s # <<>> /\ Head(s) = "-" THEN Tail(s) ELSE s
    IN  digits # <<>> /\ \A i \in 1..Len(digits) : digits[i] \in DigitChars

\* Storage.get_peer_by_id / get_peer_by_username / get_peer_by_phone_number: the
\* input peer of the row, or KeyError
KeyError == [found |-> FALSE, peer |-> [type |-> "none"]]
Found(row) == [found |-> TRUE, peer |-> get_input_peer(row.id, row.access_hash)]
get_peer_by_id(rows, peer_id) ==
    IF peer_id.type = "int" /\ \E row \in rows : row.id = peer_id.int
    THEN Found(CHOOSE row \in rows : row.id = peer_id.int)
    ELSE KeyError
ByKey(rows, index, key) ==
    IF \E e \in index : e.key = key /\ \E row \in rows : row.id = e.id
    THEN Found(CHOOSE row \in rows : \E e \in index : e.key = key /\ row.id = e.id)
    ELSE KeyError
get_peer_by_username(rows, usernames, username) == ByKey(rows, usernames, username)
get_peer_by_phone_number(rows, phones, phone) == ByKey(rows, phones, phone)

rpStorage == <<storage_usernames, storage_phones>>
upNoPeers == <<fp_pc, fp_peers, fp_result, updates_queue, dispatcher_queue, up_pushes,
               up_sentinels, uw_pc, uw_env, uw_idx, uw_is_min, uw_users, uw_chats,
               uw_logged, up_trace>>

InputPeerSelf == [type |-> "InputPeerSelf"]

\* `return x`
Return(peer) ==
    /\ rp_pc' = "returned"
    /\ rp_result' = peer
    /\ UNCHANGED rp_error
\* `raise x`, or an exception that is not caught
Raised(error) ==
    /\ rp_pc' = "raised"
    /\ rp_error' = error
    /\ UNCHANGED rp_result
\* the cache lookup that ends resolve_peer: the row, or the error a miss becomes
ReturnOr_KeyError(lookup, error) ==
    IF lookup.found THEN Return(lookup.peer) ELSE Raised("KeyError")
ReturnOr(lookup, error) ==
    IF lookup.found THEN Return(lookup.peer) ELSE Raised(error)
\* `await self.send(fn(args))`
Request(fn, args) ==
    /\ rp_pc' = "sent"
    /\ rp_requests' = Append(rp_requests, [fn |-> fn, args |-> args])
    /\ UNCHANGED <<rp_retries, rp_result, rp_error>>
Ends(outcome) == outcome /\ UNCHANGED <<rp_requests, rp_retries>>

\* 1272-1324: resolve_peer(peer_id) up to its return, its raise or its request
ResolvePeerCall ==
    /\ rp_pc = "call"
    /\ LET first == get_peer_by_id(storage_peers, rp_peer_id)
           is_self == rp_peer_id.str \in {<<"s", "e", "l", "f">>, <<"m", "e">>}
           peer_id == Normalised(rp_peer_id.str)
       IN  /\ rp_peer_id' = IF ~first.found /\ rp_peer_id.type = "str" /\ ~is_self
                             THEN [rp_peer_id EXCEPT !.str = peer_id]
                             ELSE rp_peer_id
           /\ IF first.found THEN Ends(ReturnOr(first, "KeyError"))
              ELSE IF rp_peer_id.type = "str"
              THEN IF is_self THEN Ends(Return(InputPeerSelf))
                   ELSE IF ParsesAsInt(peer_id)
                   THEN Ends(ReturnOr(get_peer_by_phone_number(
                                          storage_peers, storage_phones, peer_id),
                                      "PeerIdInvalid"))
                   ELSE LET cached == get_peer_by_username(
                                          storage_peers, storage_usernames, peer_id)
                        IN  IF cached.found THEN Ends(ReturnOr(cached, "KeyError"))
                            ELSE Request("ResolveUsername", <<peer_id>>)
              ELSE IF rp_peer_id.int > 0
              THEN Request("GetUsers", <<rp_peer_id.int, 0>>)
              ELSE IF StartsWithMinus100(rp_peer_id.int)
              THEN IF rp_peer_id.int = -100
                   THEN Ends(Raised("ValueError"))
                   ELSE Request("GetChannels", <<After100(rp_peer_id.int), 0>>)
              ELSE Request("GetChats", <<-rp_peer_id.int>>)
    /\ UNCHANGED <<storage_peers, rpStorage, upNoPeers>>
    /\ UNCHANGED notRp

\* the records an answer to the request carries: the peer asked for with an
\* access credential, or none that can be stored
Answers(request) ==
    LET none == [users |-> <<>>, chats |-> <<>>, usernames |-> {}]
        user(id) == [kind |-> "User", id |-> id, access_hash |-> Cred, flag |-> FALSE]
    IN  IF request.fn = "GetUsers"
        THEN {none, [users |-> <<user(request.args[1])>>, chats |-> <<>>,
                     usernames |-> {}]}
        ELSE IF request.fn = "GetChannels"
        THEN {none, [users |-> <<>>, usernames |-> {},
                     chats |-> <<[kind |-> "Channel", id |-> request.args[1],
                                  access_hash |-> Cred, flag |-> TRUE]>>]}
        ELSE IF request.fn = "GetChats"
        THEN {none, [users |-> <<>>, usernames |-> {},
                     chats |-> <<[kind |-> "Chat", id |-> request.args[1],
                                  access_hash |-> NoneHash, flag |-> FALSE]>>]}
        ELSE {none, [users |-> <<user(UserId)>>, chats |-> <<>>,
                     usernames |-> {[key |-> request.args[1], id |-> UserId]}]}

\* 1303-1304, 1312-1329: the request returns, the answer is harvested and the cache
\* is tried again
ResolvePeerAnswered ==
    /\ rp_pc = "sent"
    /\ \E r \in Answers(rp_requests[Len(rp_requests)]) :
        LET rows == SendHarvest(storage_peers, r)
            names == {e \in storage_usernames :
                         \A n \in r.usernames : n.id # e.id} \cup r.usernames
        IN  /\ storage_peers' = rows
            /\ storage_usernames' = names
            /\ IF rp_peer_id.type = "str"
               THEN ReturnOr(get_peer_by_username(rows, names, rp_peer_id.str),
                             "KeyError")
               ELSE ReturnOr(get_peer_by_id(rows, rp_peer_id), "PeerIdInvalid")
    /\ rp_retries' = rp_retries + 1
    /\ UNCHANGED <<rp_peer_id, rp_requests, storage_phones, upNoPeers>>
    /\ UNCHANGED notRp

\* 989-1003: the request raises an RPC error, which leaves resolve_peer
ResolvePeerFailed ==
    /\ rp_pc = "sent"
    /\ Raised("RPCError")
    /\ UNCHANGED <<rp_peer_id, rp_requests, rp_retries, storage_peers, rpStorage,
                   upNoPeers>>
    /\ UNCHANGED notRp

\* rows, usernames and phone numbers the cache may hold
CachedRows == {Parsed(1, Cred, "user"), Parsed(-1, 0, "group"),
               Parsed(ChannelPeerId(1), Cred, "channel")}
UsernameAb == <<"a", "b">>
Phone12 == <<"1", "2">>
\* what resolve_peer may be called with
Identifiers ==
    {IntId(n) : n \in 1..MaxPeerId} \cup {IntId(-n) : n \in 1..MaxPeerId} \cup
    {IntId(ChannelPeerId(n)) : n \in 1..MaxPeerId} \cup {IntId(-100)} \cup
    {StrId(s) : s \in {<<"s", "e", "l", "f">>, <<"m", "e">>, <<"@", "A", "b">>, UsernameAb,
                       <<"+", "1", " ", "2">>, Phone12, <<"3">>}}

InitResolvePeer ==
    /\ InitGetFileIdle
    /\ InitSaveFileIdle
    /\ InitStopIdle
    /\ InitAuthIdle
    /\ InitPeerIdIdle /\ InitEtcIdle
    /\ storage_peers \in SUBSET CachedRows
    /\ fp_pc = "off"
    /\ fp_peers = <<>>
    /\ fp_result = FALSE
    /\ updates_queue = <<>>
    /\ dispatcher_queue = <<>>
    /\ up_pushes = 0
    /\ up_sentinels = 0
    /\ uw_pc = [w \in UWorkers |-> "off"]
    /\ uw_env = [w \in UWorkers |-> NoEnv]
    /\ uw_idx = [w \in UWorkers |-> 0]
    /\ uw_is_min = [w \in UWorkers |-> FALSE]
    /\ uw_users = [w \in UWorkers |-> {}]
    /\ uw_chats = [w \in UWorkers |-> {}]
    /\ uw_logged = [w \in UWorkers |-> 0]
    /\ up_trace = NoTrace
    /\ rp_pc = "call"
    /\ rp_peer_id \in Identifiers
    /\ rp_requests = <<>>
    /\ rp_retries = 0
    /\ rp_result = [type |-> "none"]
    /\ rp_error = "none"
    /\ storage_usernames \in SUBSET {[key |-> UsernameAb, id |-> 1]}
    /\ storage_phones \in SUBSET {[key |-> Phone12, id |-> 1]}

NextResolvePeer ==
    \/ ResolvePeerCall
    \/ ResolvePeerAnswered
    \/ ResolvePeerFailed

SpecResolvePeer == InitResolvePeer /\ [][NextResolvePeer]_vars

\* --------------------------------------------------------------------- send
\* responses of session.send(): an object with `users` and `chats` attributes
\* (either may be empty), or a bare vector of users, which has neither
UserKinds == {"User", "UserEmpty"}
IsUserRec(peer) == peer.kind \in UserKinds
IsChatRec(peer) == peer.kind \notin UserKinds
SendRecs == {peer \in PeerRecs : ~peer.flag}
Responses(n) ==
    {[shape |-> "object", users |-> SelectSeq(b, IsUserRec), chats |-> SelectSeq(b, IsChatRec)] :
        b \in SeqsUpTo(SendRecs, n)}
    \cup {[shape |-> "vector", users |-> b, chats |-> <<>>] :
            b \in SeqsUpTo({peer \in SendRecs : IsUserRec(peer)}, n)}

\* getattr(r, "users", []) and getattr(r, "chats", [])
Attr_Items(r, name) == r[name]
Attr(r, name) == IF r.shape = "object" THEN r[name] ELSE <<>>

\* 998-1001: the two fetch_peers calls of send
send_harvest(store, r) ==
    fetch_peers(fetch_peers(store, Attr(r, "users")).store, Attr(r, "chats")).store

\* 989-996: send(data) up to `await self.session.send(...)`
SendCall ==
    /\ sd_pc = "call"
    /\ sd_pc' = IF is_started THEN "sent" ELSE "raised"
    /\ UNCHANGED <<sd_r, upVars>>
    /\ UNCHANGED notSd

\* 996-1003: session.send returns r; its peers are harvested and r is returned
SendReturned ==
    /\ sd_pc = "sent"
    /\ \E r \in Responses(MaxBatch) :
        /\ sd_r' = r
        /\ storage_peers' = send_harvest(storage_peers, r)
    /\ sd_pc' = "returned"
    /\ UNCHANGED upNoPeers
    /\ UNCHANGED notSd

\* 996: session.send raises, and so does send
SendRaised ==
    /\ sd_pc = "sent"
    /\ sd_pc' = "raised"
    /\ UNCHANGED <<sd_r, upVars>>
    /\ UNCHANGED notSd

InitSend ==
    /\ InitGetFileIdle
    /\ InitSaveFileIdle
    /\ InitUpdatesIdle
    /\ InitAuthIdle
    /\ InitResolveIdle
    /\ InitPeerIdIdle
    /\ is_started \in BOOLEAN
    /\ takeout_id \in BOOLEAN
    /\ stop_pc = "off"
    /\ stop_i = 0
    /\ download_queue = <<>>
    /\ dl_sentinels = 0
    /\ dw_pc = [w \in DWorkers |-> "off"]
    /\ dw_handled = [w \in DWorkers |-> 0]
    /\ InitStartIdle
    /\ InitSendVideoIdle /\ InitDownloadIdle /\ InitTailIdle
    /\ sd_pc = "call"
    /\ sd_r = <<>>

NextSend ==
    \/ SendCall
    \/ SendReturned
    \/ SendRaised

SpecSend == InitSend /\ [][NextSend]_vars

\* ------------------------------------------------------ peer id conversions
\* raw ids of records: small ones, 100, and the ones written "100" + a small id
RawIds == (1..MaxPeerId) \cup {100} \cup {100 * Shift10(c) + c : c \in 1..MaxPeerId}
PeerIns == [kind : {"User", "Chat", "Channel"}, id : RawIds]
Credentials == {NoneHash, 0, Cred}

\* 779-821: the id fetch_peers stores a record under
ParsedId(peer) ==
    FetchLoop(<<[kind |-> peer.kind, id |-> peer.id, access_hash |-> Cred,
                 flag |-> FALSE]>>, FALSE, <<>>).parsed[1].id

\* fetch_peers parses the two records
PeerIdStore ==
    /\ pi_pc = "call"
    /\ pi_out' = [pi_out EXCEPT !.ids = [i \in 1..2 |-> ParsedId(pi_in.peers[i])]]
    /\ pi_pc' = "stored"
    /\ UNCHANGED pi_in
    /\ UNCHANGED notPi

\* utils.get_input_peer on each stored id with the credential
PeerIdInput ==
    /\ pi_pc = "stored"
    /\ pi_out' = [pi_out EXCEPT
                    !.refs = [i \in 1..2 |-> get_input_peer(pi_out.ids[i], pi_in.access_hash)]]
    /\ pi_pc' = "input"
    /\ UNCHANGED pi_in
    /\ UNCHANGED notPi

\* utils.get_peer_id on each input peer that was built
PeerIdBack ==
    /\ pi_pc = "input"
    /\ pi_out' = [pi_out EXCEPT
                    !.back = [i \in 1..2 |-> IF pi_out.refs[i] = ValueError THEN ValueError
                                             ELSE get_peer_id(pi_out.refs[i])]]
    /\ pi_pc' = "back"
    /\ UNCHANGED pi_in
    /\ UNCHANGED notPi

InitPeerId ==
    /\ InitGetFileIdle
    /\ InitSaveFileIdle
    /\ InitUpdatesIdle
    /\ InitStopIdle
    /\ InitAuthIdle
    /\ InitResolveIdle
    /\ InitEtcIdle
    /\ pi_pc = "call"
    /\ pi_in \in [peers : [1..2 -> PeerIns], access_hash : Credentials]
    /\ pi_out = [ids |-> <<>>, refs |-> <<>>, back |-> <<>>]

NextPeerId ==
    \/ PeerIdStore
    \/ PeerIdInput
    \/ PeerIdBack

SpecPeerId == InitPeerId /\ [][NextPeerId]_vars

\* ---------------------------------------------------------------- file ids
\* results of the conversions: the bytes or characters, or the exception raised
Ok(s) == [error |-> "none", s |-> s]
Err(e) == [error |-> e, s |-> <<>>]
Zeros(n) == [k \in 1..n |-> 0]

\* base64.urlsafe_b64encode(r): a character is written as its index in the
\* URL-safe alphabet, "=" as Pad
Pad == 64
RECURSIVE b64groups(_, _)
b64groups(r, i) ==
    LET left == Len(r) - i + 1
    IN  IF left <= 0 THEN <<>>
        ELSE IF left = 1 THEN <<r[i] \div 4, (r[i] % 4) * 16, Pad, Pad>>
        ELSE IF left = 2
        THEN <<r[i] \div 4, (r[i] % 4) * 16 + r[i + 1] \div 16, (r[i + 1] % 16) * 4, Pad>>
        ELSE <<r[i] \div 4, (r[i] % 4) * 16 + r[i + 1] \div 16,
               (r[i + 1] % 16) * 4 + r[i + 2] \div 64, r[i + 2] % 64>>
             \o b64groups(r, i + 3)
urlsafe_b64encode(r) == b64groups(r, 1)

\* str.rstrip("=")
RECURSIVE rstrip(_)
rstrip(t) ==
    IF t # <<>> /\ t[Len(t)] = Pad THEN rstrip(SubSeq(t, 1, Len(t) - 1)) ELSE t

\* s + "=" * (-len(s) % 4)
Padded(t) == t \o [k \in 1..((4 - (Len(t) % 4)) % 4) |-> Pad]

\* base64.urlsafe_b64decode of a padded string: binascii.Error on a group that
\* holds a single character
RECURSIVE b64bytes(_, _)
b64bytes(t, i) ==
    IF i > Len(t) THEN Ok(<<>>)
    ELSE IF t[i] = Pad \/ t[i + 1] = Pad THEN Err("binascii.Error")
    ELSE LET a == t[i]
             b == t[i + 1]
             c == t[i + 2]
             d == t[i + 3]
             here == IF c = Pad THEN <<a * 4 + b \div 16>>
                     ELSE IF d = Pad THEN <<a * 4 + b \div 16, (b % 16) * 16 + c \div 4>>
                     ELSE <<a * 4 + b \div 16, (b % 16) * 16 + c \div 4, (c % 4) * 64 + d>>
             rest == b64bytes(t, i + 4)
         IN  IF rest.error # "none" THEN rest ELSE Ok(here \o rest.s)
urlsafe_b64decode(t) == b64bytes(t, 1)

\* utils.py 58-60: `if n: r += b"\x00" + bytes([n])`
Flush_NoMarker(n) == IF n # 0 THEN <<n>> ELSE <<>>
Flush(n) == IF n # 0 THEN <<0, n>> ELSE <<>>

\* utils.py 55-62: the loop of encode over s + bytes([2]), from index k with r
\* built so far and n = 0; the passes over a run of zeros (`n += 1`) are taken
\* together: the run ends at the next non-zero byte, which the final 2 provides.
\* bytes([n]) raises ValueError when n > 255
RECURSIVE EncodeLoop(_, _, _)
EncodeLoop(s, k, r) ==
    IF k > Len(s) THEN Ok(r)
    ELSE LET next == CHOOSE j \in k..Len(s) :
                        s[j] # 0 /\ \A m \in k..(j - 1) : s[m] = 0
             n == next - k
         IN  IF n > 255 THEN Err("ValueError")
             ELSE EncodeLoop(s, next + 1, r \o Flush(n) \o <<s[next]>>)

\* utils.py 51-65
encode(s) ==
    LET r == EncodeLoop(s \o <<2>>, 1, <<>>)
    IN  IF r.error # "none" THEN r ELSE Ok(rstrip(urlsafe_b64encode(r.s)))

\* utils.py 38-46: the loop of decode; i is the 0-based index of the code
RECURSIVE DecodeLoop(_, _, _)
DecodeLoop(s, i, r) ==
    IF ~(i < Len(s) - 1) THEN r
    ELSE IF s[i + 1] # 0 THEN DecodeLoop(s, i + 1, r \o <<s[i + 1]>>)
    ELSE DecodeLoop(s, i + 2, r \o Zeros(s[i + 2]))

\* utils.py 32-48
decode(t) ==
    LET s == urlsafe_b64decode(Padded(t))
    IN  IF s.error # "none" THEN s
        ELSE IF s.s = <<>> THEN Err("IndexError")
        ELSE IF s.s[Len(s.s)] # 2 THEN Err("AssertionError")
        ELSE Ok(DecodeLoop(s.s, 0, <<>>))

\* struct.pack of one little-endian two's complement field of `width` bytes
\* whose value fits 31 bits
ByteOf(u, k) == IF k > 4 THEN 0 ELSE (u \div (256 ^ (k - 1))) % 256
LittleEndian(v, width) ==
    [k \in 1..width |-> IF v >= 0 THEN ByteOf(v, k) ELSE 255 - ByteOf(-v - 1, k)]
\* video.py 106-112: pack("<iiqq", 4, video.dc_id, video.id, video.access_hash)
pack_iiqq(media_type, dc_id, id, access_hash) ==
    LittleEndian(media_type, 4) \o LittleEndian(dc_id, 4) \o LittleEndian(id, 8)
    \o LittleEndian(access_hash, 8)

\* the media types whose file ids are packed "<iiqq" (utils.py 139)
DocumentTypes == {3, 4, 5, 8, 9, 10, 13}
PackedIds ==
    {pack_iiqq(t, dc, 1, h) : t \in DocumentTypes, dc \in DCs, h \in {-1, Cred}}
\* byte strings made of non-zero bytes and of runs of zeros
FileIdItems == {<<1>>, <<2>>, <<255>>, Zeros(1), Zeros(2), Zeros(255)}
RECURSIVE ItemStrings(_)
ItemStrings(n) ==
    IF n = 0 THEN {<<>>}
    ELSE LET shorter == ItemStrings(n - 1)
         IN  shorter \cup {s \o it : s \in shorter, it \in FileIdItems}
ByteStrings(n) == ItemStrings(n) \cup PackedIds

\* encode is applied to both byte strings
FileIdEncode ==
    /\ fi_pc = "call"
    /\ fi_out' = [enc |-> [i \in 1..2 |-> encode(fi_in[i])], dec |-> <<>>]
    /\ fi_pc' = "encoded"
    /\ UNCHANGED fi_in
    /\ UNCHANGED notFi

\* decode is applied to every file id encode returned
FileIdDecode ==
    /\ fi_pc = "encoded"
    /\ fi_out' = [fi_out EXCEPT
                    !.dec = [i \in 1..2 |-> IF fi_out.enc[i].error # "none" THEN fi_out.enc[i]
                                            ELSE decode(fi_out.enc[i].s)]]
    /\ fi_pc' = "decoded"
    /\ UNCHANGED fi_in
    /\ UNCHANGED notFi

InitFileId ==
    /\ InitGetFileIdle
    /\ InitSaveFileIdle
    /\ InitUpdatesIdle
    /\ InitStopIdle
    /\ InitAuthIdle
    /\ InitResolveIdle
    /\ InitPeerIdIdle
    /\ InitSendIdle /\ InitStartIdle /\ InitSendVideoIdle /\ InitDownloadIdle
    /\ InitSendMessageIdle /\ InitStartCallsIdle /\ InitUnverified /\ InitOverlapIdle
    /\ fi_pc = "call"
    /\ fi_in \in [1..2 -> ByteStrings(MaxItems)]
    /\ fi_out = <<>>

NextFileId ==
    \/ FileIdEncode
    \/ FileIdDecode

SpecFileId == InitFileId /\ [][NextFileId]_vars

\* ------------------------------------------------------------- send_message
NoMessage == [type |-> "none", message_id |-> 0, date |-> 0, chat_id |-> 0,
              chat_type |-> "none", error |-> "none"]
\* `return None`
ReturnedNone == [NoMessage EXCEPT !.type = "None"]
\* an exception leaves send_message()
SmRaise(error) ==
    /\ sm_pc' = "raised"
    /\ sm_result' = [NoMessage EXCEPT !.type = "error", !.error = error]
\* `await self.resolve_peer(chat_id)` is entered
SmResolve ==
    /\ rp_pc' = "call"
    /\ rp_peer_id' = sm_chat_id
    /\ rp_result' = [type |-> "none"]
    /\ rp_error' = "none"
    /\ UNCHANGED <<rp_requests, rp_retries, rpStorage, upVars>>
\* resolve_peer() has returned or raised
SmResolved == rp_pc \in {"returned", "raised"}
rpLeft == <<rp_peer_id, rp_requests, rp_retries, rp_result, rp_error, rpStorage, upVars>>

\* what the SendMessage request may return
SendMessageReplies ==
    {[type |-> "UpdateShortSentMessage", id |-> i, date |-> d] :
        i \in 1..MaxMsgId, d \in 1..MaxMsgId}
    \cup {[type |-> t, id |-> 0, date |-> 0] : t \in {"UpdatesNewMessage", "UpdatesOther"}}

\* send_message.py 98-102: peer.user_id if isinstance(peer, InputPeerUser) else
\* -peer.chat_id; a peer without the attribute chat_id raises AttributeError
ShortPeerId(peer) ==
    IF peer.type = "InputPeerUser" THEN [error |-> "none", id |-> peer.user_id]
    ELSE IF peer.type = "InputPeerChat" THEN [error |-> "none", id |-> -peer.chat_id]
    ELSE [error |-> "AttributeError", id |-> 0]

\* send_message.py 80-84: the text is parsed and the peer resolved
SendMessageCall ==
    /\ sm_pc = "call"
    /\ sm_pc' = "peer"
    /\ SmResolve
    /\ UNCHANGED <<sm_chat_id, sm_peer, sm_r, sm_result>>
    /\ UNCHANGED notSm

\* send_message.py 82-93: the peer is there and SendMessage is sent, or
\* resolve_peer raised
SendMessageSend ==
    /\ sm_pc = "peer"
    /\ SmResolved
    /\ IF rp_pc = "raised"
       THEN SmRaise(rp_error) /\ UNCHANGED sm_peer
       ELSE /\ sm_pc' = "sent"
            /\ sm_peer' = rp_result
            /\ UNCHANGED sm_result
    /\ rp_pc' = "off"
    /\ UNCHANGED <<sm_chat_id, sm_r, rpLeft>>
    /\ UNCHANGED notSm

\* send_message.py 82-96, 118-125: the request raised or returned r; for the
\* short form the peer is resolved again, otherwise the new message of
\* r.updates is parsed, and without one the method falls off its end
SendMessageAnswered ==
    /\ sm_pc = "sent"
    /\ \/ /\ SmRaise("RPCError")
          /\ UNCHANGED <<sm_r, rpVars, upVars>>
       \/ \E r \in SendMessageReplies :
            /\ sm_r' = r
            /\ IF r.type = "UpdateShortSentMessage"
               THEN /\ sm_pc' = "peer_again"
                    /\ SmResolve
                    /\ UNCHANGED sm_result
               ELSE /\ sm_pc' = "returned"
                    /\ sm_result' = IF r.type = "UpdatesNewMessage"
                                    THEN [NoMessage EXCEPT !.type = "parsed"]
                                    ELSE ReturnedNone
                    /\ UNCHANGED <<rpVars, upVars>>
    /\ UNCHANGED <<sm_chat_id, sm_peer>>
    /\ UNCHANGED notSm

\* send_message.py 96-116: the Message of the short form is built
SendMessageShort ==
    /\ sm_pc = "peer_again"
    /\ SmResolved
    /\ IF rp_pc = "raised" THEN SmRaise(rp_error)
       ELSE LET peer_id == ShortPeerId(rp_result)
            IN  IF peer_id.error # "none" THEN SmRaise(peer_id.error)
                ELSE /\ sm_pc' = "returned"
                     /\ sm_result' = [type |-> "Message", message_id |-> sm_r.id,
                                      date |-> sm_r.date, chat_id |-> peer_id.id,
                                      chat_type |-> "private", error |-> "none"]
    /\ rp_pc' = "off"
    /\ UNCHANGED <<sm_chat_id, sm_peer, sm_r, rpLeft>>
    /\ UNCHANGED notSm

InitSendMessage ==
    /\ InitGetFileIdle
    /\ InitSaveFileIdle
    /\ InitStopIdle
    /\ InitAuthIdle
    /\ InitPeerIdIdle
    /\ InitSendIdle /\ InitStartIdle /\ InitSendVideoIdle /\ InitDownloadIdle
    /\ InitFileIdIdle /\ InitStartCallsIdle /\ InitUnverified /\ InitOverlapIdle
    /\ storage_peers \in SUBSET CachedRows
    /\ fp_pc = "off"
    /\ fp_peers = <<>>
    /\ fp_result = FALSE
    /\ updates_queue = <<>>
    /\ dispatcher_queue = <<>>
    /\ up_pushes = 0
    /\ up_sentinels = 0
    /\ uw_pc = [w \in UWorkers |-> "off"]
    /\ uw_env = [w \in UWorkers |-> NoEnv]
    /\ uw_idx = [w \in UWorkers |-> 0]
    /\ uw_is_min = [w \in UWorkers |-> FALSE]
    /\ uw_users = [w \in UWorkers |-> {}]
    /\ uw_chats = [w \in UWorkers |-> {}]
    /\ uw_logged = [w \in UWorkers |-> 0]
    /\ up_trace = NoTrace
    /\ rp_pc = "off"
    /\ rp_peer_id = [type |-> "int", int |-> 0, str |-> <<>>]
    /\ rp_requests = <<>>
    /\ rp_retries = 0
    /\ rp_result = [type |-> "none"]
    /\ rp_error = "none"
    /\ storage_usernames \in SUBSET {[key |-> UsernameAb, id |-> 1]}
    /\ storage_phones \in SUBSET {[key |-> Phone12, id |-> 1]}
    /\ sm_pc = "call"
    /\ sm_chat_id \in Identifiers
    /\ sm_peer = [type |-> "none"]
    /\ sm_r = [type |-> "none", id |-> 0, date |-> 0]
    /\ sm_result = NoMessage

NextSendMessage ==
    \/ SendMessageCall
    \/ SendMessageSend
    \/ SendMessageAnswered
    \/ SendMessageShort
    \/ ResolvePeerCall
    \/ ResolvePeerAnswered
    \/ ResolvePeerFailed

SpecSendMessage == InitSendMessage /\ [][NextSendMessage]_vars

\* ----------------------------------------------------------------- claims
\* positions of get_file after the lock block of 1501-1532
PastSetup(c) ==
    gf_pc[c] \in {"first", "progress", "next", "cdnlock", "cdnauthkey", "cdnstart",
                  "cdnget", "reupload", "cdnhashes", "cdnprogress"}

\* C1: whatever the interleaving of concurrent get_file calls, at most one
\* started Session exists per data-center id, and every call that is past the
\* lock block works on the session cached in media_sessions for its dc_id.
C1_OneMediaSessionPerDc ==
    /\ \A d \in DCs :
        Cardinality({i \in SessionIds : sessions[i].started /\ sessions[i].dc = d}) <= 1
    /\ \A c \in Callers :
        PastSetup(c) =>
            /\ gf_session[c] # None
            /\ gf_session[c] = media_sessions[gf_dc[c]]
            /\ sessions[gf_session[c]].started

\* two calls for the same data-center are past the lock block and the second
\* reuses the session the first one created
C1_Witness ==
    \E c1, c2 \in Callers :
        /\ c1 # c2
        /\ gf_dc[c1] = gf_dc[c2]
        /\ PastSetup(c1) /\ PastSetup(c2)
        /\ gf_session[c1] = MediaId(c1)
        /\ gf_session[c2] = MediaId(c1)

\* C2: a CDN hash mismatch is fatal: the call has returned the empty result,
\* the temp file is gone (so the chunk was not written) and, having returned,
\* the call issues no further request.
C2_CdnMismatchFatal ==
    \A c \in Callers :
        gf_mismatch[c] =>
            /\ gf_pc[c] = "done"
            /\ gf_result[c] = "empty"
            /\ gf_file[c] = NoFile

\* the mismatch hit a later chunk, after an earlier chunk had been written
C2_Witness ==
    \E c \in Callers : gf_mismatch[c] /\ gf_offset[c] > 0 /\ gf_pc[c] = "done"

\* C3: once the pool exists, however the transfer ends (all chunks queued,
\* StopTransmission, a session failing to start, any other exception), when
\* save_file has returned or raised exactly one None per worker task has been
\* queued, every worker task has finished and stop() was called on every
\* session of the pool.
C3_SaveFileCleanup ==
    (sf_pc = "done" /\ sf_outcome # "ValueError") =>
        /\ sf_nones = NumWorkers(SfBig)
        /\ sf_finished = NumWorkers(SfBig)
        /\ sf_waiting = 0 /\ sf_sending = 0
        /\ Len(sf_pool) = pool_size(SfBig)
        /\ \A i \in 1..Len(sf_pool) : sf_pool[i].stopped

\* a big upload cancelled by StopTransmission after a chunk was queued has ended
C3_Witness ==
    /\ sf_pc = "done"
    /\ sf_outcome = "StopTransmission"
    /\ SfBig
    /\ sf_file_part > 0

\* the record carries what fetch_peers needs to commit it
Committable(peer) ==
    \/ peer.kind \in {"User", "Channel", "ChannelForbidden"} /\ peer.access_hash # NoneHash
    \/ peer.kind \in {"Chat", "ChatForbidden"}
\* the record is skipped for an absent access credential
SkippedMin(peer) ==
    peer.kind \in {"User", "Channel", "ChannelForbidden"} /\ peer.access_hash = NoneHash
\* the id under which the record is stored
StoredId(peer) ==
    IF peer.kind = "User" THEN peer.id
    ELSE IF peer.kind \in {"Chat", "ChatForbidden"} THEN -peer.id
    ELSE ChannelPeerId(peer.id)
\* the row stored for a committable record
StoredRow(peer) ==
    IF peer.kind = "User"
    THEN Parsed(peer.id, peer.access_hash, IF peer.flag THEN "bot" ELSE "user")
    ELSE IF peer.kind \in {"Chat", "ChatForbidden"}
    THEN Parsed(-peer.id, 0, "group")
    ELSE Parsed(ChannelPeerId(peer.id), peer.access_hash,
                IF peer.flag THEN "channel" ELSE "supergroup")

\* C4: when stop() has returned, exactly one None per download worker and one per
\* update worker were enqueued, and every worker task of both kinds has completed.
C4_StopJoinsAllWorkers ==
    stop_pc = "returned" =>
        /\ dl_sentinels = DOWNLOAD_WORKERS
        /\ up_sentinels = UPDATES_WORKERS
        /\ \A w \in DWorkers : dw_pc[w] = "done"
        /\ \A w \in UWorkers : uw_pc[w] = "done"

\* stop() returned after pending jobs and pending envelopes were handled
C4_Witness ==
    /\ stop_pc = "returned"
    /\ \E w \in DWorkers : dw_handled[w] > 0
    /\ dispatcher_queue # <<>>

\* C5: an exception logged by an update worker leaves the worker waiting for the
\* next envelope, and a worker ends only by dequeuing a None sentinel.
C5_WorkerSurvivesExceptions ==
    [][\A w \in UWorkers :
          /\ uw_logged'[w] > uw_logged[w] => uw_pc'[w] = "get"
          /\ (uw_pc[w] # "done" /\ uw_pc'[w] = "done") =>
                /\ uw_pc[w] = "get"
                /\ updates_queue # <<>>
                /\ Head(updates_queue).kind = "None"]_vars

\* a worker that logged an exception is processing a later envelope
C5_Witness ==
    \E w \in UWorkers : uw_logged[w] > 0 /\ uw_pc[w] \in {"chandiff", "getdiff"}

\* C6: whenever an update of a combined envelope has been forwarded, every user
\* and chat record of the envelope that carries an access credential is in the
\* peer storage, also when a user record of the envelope is a min peer.
C6_EnvelopeHarvestedBeforeForward ==
    \A i \in 1..Len(dispatcher_queue) :
        \A peer \in dispatcher_queue[i].users \cup dispatcher_queue[i].chats :
            Committable(peer) => \E row \in storage_peers : row.id = StoredId(peer)

\* C7: after fetch_peers on a batch (empty storage before), the storage holds
\* exactly the rows of the batch's user/channel records with a credential and of
\* its basic groups (the last record of an id wins), and the flag returned is
\* true exactly when some record was skipped for an absent credential.
C7_FetchPeersCommitsAllButMin ==
    fp_pc = "returned" =>
        /\ storage_peers =
              {StoredRow(fp_peers[i]) : i \in
                  {j \in 1..Len(fp_peers) :
                      /\ Committable(fp_peers[j])
                      /\ \A k \in (j + 1)..Len(fp_peers) :
                            Committable(fp_peers[k]) =>
                                StoredId(fp_peers[k]) # StoredId(fp_peers[j])}}
        /\ fp_result = (\E i \in 1..Len(fp_peers) : SkippedMin(fp_peers[i]))

\* a batch whose first record is skipped and whose second is committed
C7_Witness ==
    /\ fp_pc = "returned"
    /\ Len(fp_peers) = 2
    /\ SkippedMin(fp_peers[1])
    /\ Committable(fp_peers[2])
    /\ fp_result
    /\ StoredRow(fp_peers[2]) \in storage_peers


Rejections ==
    {"PhoneNumberInvalid", "PhoneNumberBanned", "PhoneCodeInvalid", "PhoneCodeEmpty",
     "PhoneCodeExpired", "PhoneCodeHashEmpty", "FirstnameInvalid", "PasswordHashInvalid",
     "PasswordEmpty", "PasswordRecoveryNa"}
\* the value a rejection is about
RejectedValue(kind) ==
    IF kind \in {"PhoneNumberInvalid", "PhoneNumberBanned"} THEN "phone_number"
    ELSE IF kind = "FirstnameInvalid" THEN "first_name"
    ELSE IF kind \in {"PasswordHashInvalid", "PasswordEmpty", "PasswordRecoveryNa"}
    THEN "password"
    ELSE "phone_code"
\* where the step of a value obtains the value, and where it awaits its request
ObtainsAt(value) ==
    IF value = "phone_number" THEN "phone"
    ELSE IF value = "password" THEN "get_password"
    ELSE "sign"
AwaitsAt(value) ==
    IF value = "phone_number" THEN "send_code"
    ELSE IF value = "password" THEN "check_password"
    ELSE "signing"
\* the step a request belongs to and the values that step sends
StepOf(fn) ==
    IF fn = "SendCode" THEN "code"
    ELSE IF fn \in {"SignIn", "SignUp"} THEN "sign"
    ELSE "password"
\* since the last answer: nothing was sent, prompted or asked of a callback
NothingSince ==
    /\ au_log.sent = au_mark.log.sent
    /\ au_log.prompts = au_mark.log.prompts
    /\ au_log.calls = au_mark.log.calls
\* the last answer made authorize_user() raise it at once
FailedAtOnce ==
    /\ au_pc = "raised"
    /\ au_error = au_reply.kind
    /\ NothingSince
    /\ storage_user_id = None
\* after the rejection of `value` its message was printed and the flow is back in
\* the step of the value, which obtains the value anew before it repeats the request
ObtainsAgain(value) ==
    /\ au_pc \in {ObtainsAt(value), AwaitsAt(value)}
    /\ au_log.printed = au_mark.log.printed + 1
    /\ au_pc = ObtainsAt(value) => au_self[value] = None
    /\ au_pc = AwaitsAt(value) =>
          /\ au_log.prompts + au_log.calls > au_mark.log.prompts + au_mark.log.calls
          /\ au_request.fn = au_mark.request.fn
\* the flow slept the x seconds of the last answer, once
SleptOnce ==
    /\ au_log.sleeps = au_mark.log.sleeps + 1
    /\ au_log.slept = au_mark.log.slept + au_reply.x
\* the flow is back in the step of the last request with the values it had, and
\* repeats that very request without obtaining anything
RetriesSame ==
    /\ au_pc \in {"phone", "send_code", "sign", "signing", "get_password"}
    /\ au_self = au_mark.self
    /\ au_log.prompts = au_mark.log.prompts
    /\ au_log.calls = au_mark.log.calls
    /\ au_pc \in {"send_code", "signing"} =>
          /\ au_request = au_mark.request
          /\ au_log.sent = au_mark.log.sent + 1

\* C8: when the network rejects a value that was passed as a fixed value,
\* authorize_user() raises that error at once: nothing more is sent or prompted
\* and storage.user_id stays None.
C8_FixedValueRejectedFails ==
    (au_reply.kind \in Rejections /\ au_given[RejectedValue(au_reply.kind)] = "fixed")
        => FailedAtOnce

\* a fixed password was rejected after the sign-in asked for it
C8_Witness ==
    /\ au_reply.kind = "PasswordHashInvalid"
    /\ au_given.password = "fixed"
    /\ au_pc = "raised"
    /\ au_log.sent >= 4

\* C9 as stated: a rejected value that was not passed as a fixed value (default
\* prompt or callback) does not fail the flow; it is obtained again and the step
\* repeated.
C9_NotFixedObtainsAgain ==
    (au_reply.kind \in Rejections /\ au_given[RejectedValue(au_reply.kind)] # "fixed")
        => ObtainsAgain(RejectedValue(au_reply.kind))

\* C9 amended: a rejected value that was not passed at all (default prompt) is
\* obtained again and the step repeated; a rejected value that came from a
\* callback fails the flow at once, like a fixed one.
C9_PromptedObtainsAgain ==
    au_reply.kind \in Rejections =>
        /\ au_given[RejectedValue(au_reply.kind)] = "none"
              => ObtainsAgain(RejectedValue(au_reply.kind))
        /\ au_given[RejectedValue(au_reply.kind)] = "callable" => FailedAtOnce

\* a prompted phone code was rejected, prompted again and SignIn sent again
C9_Witness ==
    /\ au_reply.kind = "PhoneCodeInvalid"
    /\ au_given.phone_code = "none"
    /\ au_pc = "signing"
    /\ au_request.fn = "SignIn"
    /\ au_log.prompts > au_mark.log.prompts

\* the values of the step of the last request, as passed to Client()
StepGiven ==
    LET step == StepOf(au_mark.request.fn)
    IN  IF step = "code" THEN {au_given.phone_number}
        ELSE IF step = "password" THEN {au_given.password}
        ELSE IF au_mark.request.fn = "SignUp"
        THEN {au_given.phone_code, au_given.first_name}
        ELSE {au_given.phone_code}

StepMigrates == {"PhoneMigrate", "NetworkMigrate"}
\* the session was stopped, storage.dc_id set to the data center of the last
\* answer, an auth key created and a session on that data center started, once
MovedThere ==
    /\ storage_dc_id = au_reply.x
    /\ au_self.session_dc = au_reply.x
    /\ au_log.stopped = au_mark.log.stopped + 1
    /\ au_log.keys = au_mark.log.keys + 1
    /\ au_log.started = au_mark.log.started + 1
\* the step of the last request is issued again with the values it had, nothing
\* being obtained anew, and nothing was raised
IssuedAgain ==
    /\ au_pc \in {"phone", "send_code", "sign", "signing", "get_password",
                  "request_recovery", "check_password"}
    /\ au_error = "none"
    /\ [au_self EXCEPT !.session_dc = 0] = [au_mark.self EXCEPT !.session_dc = 0]
    /\ au_log.prompts = au_mark.log.prompts
    /\ au_log.calls = au_mark.log.calls
    /\ au_pc \notin {"phone", "sign"} =>
          /\ au_request = au_mark.request
          /\ au_log.sent = au_mark.log.sent + 1

NotAskedAgain ==
    /\ au_log.prompts = au_mark.log.prompts
    /\ au_log.calls = au_mark.log.calls

\* C12: for a phone that is not registered the flow sends SignUp with a first and
\* a last name it has obtained; when SignUp is answered PhoneNumberOccupied the
\* flow switches to the sign-in path and sends SignIn with the phone number, the
\* code hash and the phone code of the SignUp, without asking for the code again;
\* when the flow ends after a SignIn result, storage.user_id is the user id of
\* that result.
C12_OccupiedSwitchesToSignIn ==
    /\ (au_pc = "signing" /\ ~au_local.phone_registered) =>
          /\ au_request.fn = "SignUp"
          /\ au_request.args[4] = au_self.first_name
          /\ au_request.args[5] = au_self.last_name
          /\ {au_self.first_name, au_self.last_name} \cap {None, Callable} = {}
    /\ au_reply.kind = "PhoneNumberOccupied" =>
          /\ au_mark.request.fn = "SignUp"
          /\ au_local.phone_registered
          /\ au_error = "none"
          /\ au_pc \in {"sign", "signing"}
          /\ NotAskedAgain
          /\ au_self.phone_code = au_mark.request.args[3]
          /\ au_pc = "signing" =>
                /\ au_request = [fn |-> "SignIn",
                                 args |-> SubSeq(au_mark.request.args, 1, 3)]
                /\ au_log.sent = au_mark.log.sent + 1
    /\ (au_pc = "done" /\ au_mark.by = "SignIn") => storage_user_id = au_mark.user

\* an unregistered phone: SignUp was answered PhoneNumberOccupied, SignIn was sent
\* with the prompted code and the flow ended with the user id of its result
C12_Witness ==
    /\ au_pc = "done"
    /\ au_mark.by = "SignIn"
    /\ au_mark.request.fn = "SignIn"
    /\ au_errors = 1
    /\ au_given.phone_code = "none"
    /\ au_log.sent = 3
    /\ au_log.prompts = 4
    /\ storage_user_id = MaxUserId

\* C13: when authorize_user() or authorize_bot() has returned, storage.user_id is
\* the user id of the last authorization the network returned (SignIn, SignUp,
\* CheckPassword, RecoverPassword or ImportBotAuthorization), storage.is_bot is
\* true exactly when the client has a bot token, and in the user flow
\* self.password is None, however the password was passed.
C13_AuthorizedStateIsResponse ==
    au_pc = "done" =>
        /\ au_mark.by \in Authorizations
        /\ storage_user_id = au_mark.user
        /\ storage_is_bot = (au_self.bot_token # None)
        /\ au_self.bot_token = None => au_self.password = None

\* a password from a callback was checked, then the terms of service were
\* accepted
C13_Witness ==
    /\ au_pc = "done"
    /\ au_given.password = "callable"
    /\ au_mark.by = "CheckPassword"
    /\ au_mark.request.fn = "AcceptTermsOfService"
    /\ storage_user_id = MaxUserId
    /\ ~storage_is_bot

\* the envelope carries a user or chat record without an access credential
HasMin(env) ==
    \/ \E i \in 1..Len(env.users) : SkippedMin(env.users[i])
    \/ \E i \in 1..Len(env.chats) : SkippedMin(env.chats[i])
\* a non-empty new channel message in an envelope with a min peer
CallsForCorrective(update, env) ==
    /\ update.kind = "UpdateNewChannelMessage"
    /\ ~update.empty
    /\ HasMin(env)
\* the tuples of dispatcher_queue that come from combined envelopes
FromCombined ==
    {i \in 1..Len(dispatcher_queue) :
        up_trace.sources[i].env.kind \in {"Updates", "UpdatesCombined"}}

OwnUsers(env) == DictUpdate({}, env.users)
OwnChats(env) == DictUpdate({}, env.chats)
\* worker w's request was rejected with ChannelPrivate in this step
SwallowsPrivate(w) ==
    /\ uw_pc[w] = "chandiff"
    /\ <<uw_pc'[w], uw_idx'[w]>> # <<uw_pc[w], uw_idx[w]>>
    /\ uw_logged'[w] = uw_logged[w]
    /\ Len(up_trace'.sources) > Len(up_trace.sources)
    /\ up_trace'.sources[Len(up_trace.sources) + 1].answer = "ChannelPrivate"
\* where the `for` loop of worker w is after the step: the index of the update it
\* awaits a request for, or past the last update
LoopAt(w) ==
    IF uw_pc'[w] = "chandiff" THEN uw_idx'[w] ELSE Len(uw_env[w].updates) + 1

\* C15 as stated: when the corrective request for an update is rejected with
\* ChannelPrivate, nothing is logged, the update is put on the dispatcher queue
\* with the maps of the envelope's own users and chats, without backfilled peers,
\* and the loop goes on: every later update of the envelope up to the next one
\* that needs a request is forwarded in order, with the same maps.
C15_ChannelPrivateForwardsOwnMaps ==
    [][\A w \in UWorkers :
          SwallowsPrivate(w) =>
              LET env == uw_env[w]
                  at == uw_idx[w]
                  n == Len(dispatcher_queue)
              IN  /\ uw_pc'[w] \in {"chandiff", "get"}
                  /\ LoopAt(w) > at
                  /\ Len(dispatcher_queue') = n + (LoopAt(w) - at)
                  /\ \A k \in at..(LoopAt(w) - 1) :
                        dispatcher_queue'[n + 1 + (k - at)] =
                            Forwarded(env.updates[k], OwnUsers(env), OwnChats(env))
                  /\ storage_peers' = storage_peers]_vars

\* the records a GetChannelDifference answer may backfill
BackfilledUsers == UNION {{o.users[i] : i \in 1..Len(o.users)} : o \in ChannelDifferences}
BackfilledChats == UNION {{o.chats[i] : i \in 1..Len(o.chats)} : o \in ChannelDifferences}

\* C15 amended: when the corrective request for an update is rejected with
\* ChannelPrivate, nothing is logged and nothing is stored, the update is put on
\* the dispatcher queue with the user and chat maps as they stand, this request
\* adding nothing to them: the envelope's own records, and the records that the
\* corrective requests of earlier updates of the same envelope have backfilled.
\* The loop goes on: every later update of the envelope up to the next one that
\* needs a request is forwarded in order, with the same maps.
C15_ChannelPrivateSwallowed ==
    [][\A w \in UWorkers :
          SwallowsPrivate(w) =>
              LET env == uw_env[w]
                  at == uw_idx[w]
                  n == Len(dispatcher_queue)
              IN  /\ uw_pc'[w] \in {"chandiff", "get"}
                  /\ LoopAt(w) > at
                  /\ Len(dispatcher_queue') = n + (LoopAt(w) - at)
                  /\ \A k \in at..(LoopAt(w) - 1) :
                        dispatcher_queue'[n + 1 + (k - at)] =
                            Forwarded(env.updates[k], uw_users[w], uw_chats[w])
                  /\ \A k \in (at + 1)..(LoopAt(w) - 1) :
                        ~CallsForCorrective(env.updates[k], env)
                  /\ uw_pc'[w] = "chandiff" =>
                        /\ CallsForCorrective(env.updates[LoopAt(w)], env)
                        /\ uw_users'[w] = uw_users[w]
                        /\ uw_chats'[w] = uw_chats[w]
                  /\ uw_users[w] \subseteq OwnUsers(env) \cup BackfilledUsers
                  /\ uw_chats[w] \subseteq OwnChats(env) \cup BackfilledChats
                  /\ \A u \in OwnUsers(env) : \E v \in uw_users[w] : v.id = u.id
                  /\ \A c \in OwnChats(env) : \E v \in uw_chats[w] : v.id = c.id
                  /\ (at = 1 \/ \A k \in 1..(at - 1) : ~CallsForCorrective(env.updates[k], env))
                        => /\ uw_users[w] = OwnUsers(env)
                           /\ uw_chats[w] = OwnChats(env)
                  /\ storage_peers' = storage_peers]_vars

\* an update whose request was rejected with ChannelPrivate is on the dispatcher
\* queue with a user record that the request of the update before it backfilled
C15_Witness ==
    \E i \in 2..Len(dispatcher_queue) :
        /\ up_trace.sources[i].answer = "ChannelPrivate"
        /\ up_trace.sources[i - 1].answer = "ChannelDifference"
        /\ up_trace.sources[i - 1].env = up_trace.sources[i].env
        /\ dispatcher_queue[i].update.kind = "UpdateNewChannelMessage"
        /\ UBackfilled \in dispatcher_queue[i].users
        /\ UBackfilled \notin OwnUsers(up_trace.sources[i].env)

\* the tuples of dispatcher_queue forwarded for short message envelopes
FromShortMessage ==
    {i \in 1..Len(dispatcher_queue) :
        up_trace.sources[i].env.kind \in {"UpdateShortMessage", "UpdateShortChatMessage"}}

\* C16: for every short message envelope whose GetDifference request has been
\* answered with a difference, exactly one tuple has been put on the dispatcher
\* queue.
C16_ShortMessageForwardsOne ==
    Cardinality(FromShortMessage) = up_trace.answered

\* no worker is in the middle of an envelope
WorkersIdle == \A w \in UWorkers : uw_pc[w] \in {"get", "done"}
\* exceptions logged by the workers so far
RECURSIVE LoggedBy(_)
LoggedBy(n) == IF n = 0 THEN 0 ELSE uw_logged[n] + LoggedBy(n - 1)

Carried(env) == IF env.kind \in {"Updates", "UpdatesCombined", "UpdateShort"}
                THEN env.updates ELSE <<>>
\* the step puts the updates of `env` from index `at` to index `to` - 1 on the
\* dispatcher queue, in order, and nothing else
ForwardsFrom(env, at, to) ==
    LET n == Len(dispatcher_queue)
    IN  /\ to >= at
        /\ Len(dispatcher_queue') = n + (to - at)
        /\ SubSeq(dispatcher_queue', 1, n) = dispatcher_queue
        /\ \A k \in at..(to - 1) :
              dispatcher_queue'[n + 1 + (k - at)].update = Carried(env)[k]
\* where the `for` loop over `env` is after the step: at the update some worker
\* of `ws` now awaits a request for, or past the last update
LoopIsAt(ws, env) ==
    IF \E w \in ws : uw_pc'[w] = "chandiff"
    THEN uw_idx'[CHOOSE w \in ws : uw_pc'[w] = "chandiff"]
    ELSE Len(Carried(env)) + 1

IsSelf(peer_id) == peer_id.type = "str" /\ peer_id.str \in {<<"s", "e", "l", "f">>, <<"m", "e">>}
IsPhone(peer_id) ==
    peer_id.type = "str" /\ ~IsSelf(peer_id) /\ ParsesAsInt(Normalised(peer_id.str))
IsUsername(peer_id) ==
    peer_id.type = "str" /\ ~IsSelf(peer_id) /\ ~ParsesAsInt(Normalised(peer_id.str))
RpEnded == rp_pc \in {"returned", "raised"}
\* the cache does not hold the peer after the request and the retry (a phone
\* number: after the direct lookup)
StillUnknown ==
    /\ RpEnded
    /\ \/ /\ rp_retries = 1
          /\ rp_peer_id.type = "int"
          /\ ~get_peer_by_id(storage_peers, rp_peer_id).found
       \/ /\ rp_retries = 1
          /\ IsUsername(rp_peer_id)
          /\ ~get_peer_by_username(storage_peers, storage_usernames, rp_peer_id.str).found
       \/ /\ IsPhone(rp_peer_id)
          /\ ~get_peer_by_phone_number(storage_peers, storage_phones,
                                       Normalised(rp_peer_id.str)).found

\* C18 as stated: whatever the kind of identifier, a peer that is still unknown
\* after the fallback request and the retry (a phone number: after the direct
\* lookup) makes resolve_peer raise PeerIdInvalid
C18_UnknownIsPeerIdInvalid ==
    StillUnknown => rp_pc = "raised" /\ rp_error = "PeerIdInvalid"

\* C18 as the code has it: a numeric id or a phone number that is still unknown
\* raises PeerIdInvalid, a username that is still unknown after
\* ResolveUsername and the retry raises the KeyError of the cache lookup;
\* never a result
C18_UnknownIsPeerIdInvalidOrKeyError ==
    StillUnknown =>
        /\ rp_pc = "raised"
        /\ rp_error = IF IsUsername(rp_peer_id) THEN "KeyError" ELSE "PeerIdInvalid"

\* a username is still unknown after ResolveUsername and the retry
C18_Witness ==
    /\ StillUnknown
    /\ IsUsername(rp_peer_id)
    /\ Len(rp_requests) = 1
    /\ rp_requests[1].fn = "ResolveUsername"
    /\ rp_retries = 1
    /\ rp_error = "KeyError"

\* the cache holds the identifier when resolve_peer is called
CachedAtCall ==
    \/ get_peer_by_id(storage_peers, rp_peer_id).found
    \/ /\ IsUsername(rp_peer_id)
       /\ get_peer_by_username(storage_peers, storage_usernames,
                               Normalised(rp_peer_id.str)).found
\* the fallback request for the shape of the identifier
FallbackFor(peer_id) ==
    IF peer_id.type = "str"
    THEN [fn |-> "ResolveUsername", args |-> <<Normalised(peer_id.str)>>]
    ELSE IF peer_id.int > 0 THEN [fn |-> "GetUsers", args |-> <<peer_id.int, 0>>]
    ELSE IF StartsWithMinus100(peer_id.int)
    THEN [fn |-> "GetChannels", args |-> <<After100(peer_id.int), 0>>]
    ELSE [fn |-> "GetChats", args |-> <<-peer_id.int>>]

\* C19: resolve_peer sends nothing when the identifier is cached, is "self" or
\* "me" (the result is InputPeerSelf) or is a phone number; for any other
\* identifier it sends exactly one request, the one for the identifier's
\* shape, and when that request returns it looks the cache up once more and ends
C19_OneFallbackByShape ==
    [][/\ rp_pc = "call" /\ rp_pc' # "call" =>
            IF CachedAtCall \/ IsSelf(rp_peer_id) \/ IsPhone(rp_peer_id)
            THEN /\ rp_requests' = <<>>
                 /\ rp_pc' \in {"returned", "raised"}
                 /\ IsSelf(rp_peer_id) /\ ~CachedAtCall =>
                        rp_pc' = "returned" /\ rp_result' = InputPeerSelf
                 /\ IsPhone(rp_peer_id) /\ ~CachedAtCall /\ rp_pc' = "raised" =>
                        rp_error' = "PeerIdInvalid"
            ELSE /\ rp_requests' = <<FallbackFor(rp_peer_id)>>
                 /\ rp_pc' = "sent"
       /\ rp_pc = "sent" /\ rp_pc' # "sent" =>
            /\ rp_requests' = rp_requests
            /\ rp_pc' \in {"returned", "raised"}
            /\ rp_error' # "RPCError" => rp_retries' = rp_retries + 1 /\ rp_retries = 0
      ]_vars

\* the id has the form "-100" followed by the digits of a channel id
IsChannelForm(id) == StartsWithMinus100(id) /\ id # -100
PiDone == pi_pc = "back"

\* C20: the stored id tells the kind of peer and converts back: records of
\* different kinds never get the same id, get_input_peer gives InputPeerUser
\* for a positive id, InputPeerChannel for every id of the form -100||c and
\* InputPeerChat for every other negative id, and get_peer_id of that input
\* peer is the id again
C20_PeerIdInjectiveRoundTrip ==
    PiDone =>
        /\ pi_in.peers[1].kind # pi_in.peers[2].kind => pi_out.ids[1] # pi_out.ids[2]
        /\ \A i \in 1..2 :
            /\ pi_out.ids[i] = IF pi_in.peers[i].kind = "User" THEN pi_in.peers[i].id
                               ELSE IF pi_in.peers[i].kind = "Chat" THEN -pi_in.peers[i].id
                               ELSE ChannelPeerId(pi_in.peers[i].id)
            /\ pi_out.refs[i] # ValueError
            /\ pi_out.refs[i].type =
                   IF pi_out.ids[i] > 0 THEN "InputPeerUser"
                   ELSE IF IsChannelForm(pi_out.ids[i]) THEN "InputPeerChannel"
                   ELSE "InputPeerChat"
            /\ pi_out.back[i] = pi_out.ids[i]

\* the records a response carries, whatever its shape
RecordsOf(r) == {r.users[i] : i \in 1..Len(r.users)} \cup {r.chats[i] : i \in 1..Len(r.chats)}
\* the cache resolves the id the record is stored under
Resolvable(peer) == get_peer_by_id(storage_peers, IntId(StoredId(peer))).found
Observed == sd_pc = "returned"

\* C21 as stated: when send has returned a response, every record of the
\* response that carries an access credential is resolvable from the cache
C21_EveryResponseHarvested ==
    Observed => \A peer \in RecordsOf(sd_r) : Committable(peer) => Resolvable(peer)

\* C21 as the code has it: when send has returned a response that has `users`
\* and `chats` attributes, every record in them that carries an access
\* credential is resolvable from the cache; a response without these
\* attributes (a bare vector of users) leaves the cache as it was
C21_AttributesHarvested ==
    [][sd_pc = "sent" /\ sd_pc' = "returned" =>
          IF sd_r'.shape = "object"
          THEN \A peer \in RecordsOf(sd_r') :
                  Committable(peer) =>
                      get_peer_by_id(storage_peers', IntId(StoredId(peer))).found
          ELSE storage_peers' = storage_peers]_vars

\* send returned an object whose user and channel were both stored
C21_Witness ==
    /\ Observed
    /\ sd_r.shape = "object"
    /\ \E u \in RecordsOf(sd_r), c \in RecordsOf(sd_r) :
          /\ u.kind = "User" /\ c.kind = "Channel"
          /\ Committable(u) /\ Committable(c)
          /\ Resolvable(u) /\ Resolvable(c)

\* what a refused start() or stop() must leave alone: is_started, the primary
\* session, the worker tasks, the queues and the media sessions
ClientState ==
    <<is_started, self_session, uw_pc, dw_pc, updates_queue, download_queue,
      dispatcher_queue, media_sessions, sessions>>
StartRefused == start_pc = "call" /\ start_pc' # "call" /\ is_started
StopRefused == stop_pc = "call" /\ stop_pc' # "call" /\ ~is_started

\* C22: start() on a started client and stop() on a client that is not started
\* raise ConnectionError and change nothing of the client
C22_RefusedCallChangesNothing ==
    [][/\ StartRefused =>
            /\ start_pc' = "raised" /\ start_error' = "ConnectionError"
            /\ UNCHANGED ClientState
       /\ StopRefused =>
            /\ stop_pc' = "raised"
            /\ UNCHANGED ClientState]_vars

\* start() was refused on a started client whose worker tasks wait on their queues
C22_Witness ==
    /\ start_pc = "raised"
    /\ start_error = "ConnectionError"
    /\ is_started
    /\ self_session.started
    /\ \A w \in UWorkers : uw_pc[w] = "get"

\* an upload is under way or over (the size check has passed)
SfRunning == sf_pc \notin {"off", "idle"} /\ sf_file_size > 0
\* the worker tasks of the call, wherever they are
SfTasks == sf_waiting + sf_sending + sf_finished
\* every chunk request carries its part index; a big one also the part count
RpcsTagged ==
    \A k \in 1..Len(sf_trace.rpcs) :
        LET rpc == sf_trace.rpcs[k]
        IN  /\ rpc.file_part = IF sf_is_missing_part THEN sf_file_part
                               ELSE k - 1
            /\ SfBig => rpc.fn = "SaveBigFilePart"
                        /\ rpc.file_total_parts = file_total_parts(sf_file_size)
            /\ ~SfBig => rpc.fn = "SaveFilePart"
\* the checksum of all the chunks of the file, in order
WholeDigest == [k \in 1..file_total_parts(sf_file_size) |-> k - 1]
\* what the strategy fixes apart from the number of worker tasks
StrategyBySize(tasks_big) ==
    SfRunning =>
        /\ Len(sf_pool) = IF SfBig THEN 3 ELSE 1
        /\ SfTasks = IF SfBig THEN tasks_big ELSE 1
        /\ RpcsTagged
        /\ SfBig => sf_trace.md5_sum = NoMd5
        /\ sf_outcome = "InputFileBig" =>
              SfBig /\ sf_trace.result.type = "InputFileBig"
                    /\ sf_trace.result.md5_checksum = NoMd5
        /\ sf_outcome = "InputFile" =>
              ~SfBig /\ sf_trace.result.type = "InputFile"
                     /\ sf_trace.result.md5_checksum = WholeDigest

\* C23 as stated: a file above the threshold is uploaded by 3 sessions and 4
\* worker tasks, with every chunk tagged with its part index and the part count
\* and no checksum; a file up to the threshold by 1 session and 1 worker task,
\* and the checksum of all its chunks is returned
C23_BigUsesFourWorkers == StrategyBySize(4)

\* C23 as the code has it: the same, with 4 worker tasks for each of the 3
\* sessions of a big upload, 12 in all
C23_BigUsesFourWorkersPerSession == StrategyBySize(12)

\* a big upload returned InputFileBig after a tagged chunk request for each part
C23_Witness ==
    /\ sf_pc = "done"
    /\ SfBig
    /\ sf_outcome = "InputFileBig"
    /\ Len(sf_trace.rpcs) = file_total_parts(sf_file_size)
    /\ SfTasks = 12

\* the call resumes one part that exists in the file
ResumesPart ==
    SfRunning /\ sf_is_missing_part /\ sf_file_part < file_total_parts(sf_file_size)
\* every session of the pool has started, so the file has been opened
PoolStarted == \A i \in 1..Len(sf_pool) : sf_pool[i].started

\* C24: a call that resumes one existing part and whose sessions have started
\* reads one chunk, puts exactly one request for it on the queue, with the
\* file id given and that part index, calls no progress callback, runs the
\* cleanup (one None per worker task, every task finished, every session
\* stopped) and returns None
C24_ResumeSendsOnePart ==
    ResumesPart =>
        /\ sf_trace.reads <= 1
        /\ Len(sf_trace.rpcs) <= 1
        /\ sf_trace.progress = <<>>
        /\ sf_pc \notin {"put", "progress"} /\ PoolStarted =>
              /\ sf_trace.reads = 1
              /\ sf_trace.rpcs = <<ChunkRpc(GivenId, sf_file_part, sf_file_size)>>
              /\ sf_outcome = "None"
        /\ sf_pc = "done" =>
              /\ sf_outcome = "None"
              /\ sf_trace.result.type = "none"
              /\ sf_nones = SfTasks /\ sf_finished = SfTasks
              /\ \A i \in 1..Len(sf_pool) : sf_pool[i].stopped

\* a big upload resumed its last part: one request, one read, cleanup done
C24_Witness ==
    /\ ResumesPart
    /\ SfBig
    /\ sf_pc = "done"
    /\ sf_file_part = file_total_parts(sf_file_size) - 1
    /\ Len(sf_trace.rpcs) = 1
    /\ sf_trace.rpcs[1].file_id = GivenId
    /\ sf_trace.rpcs[1].file_part = sf_file_part
    /\ sf_trace.reads = 1

\* the progress callback of the running save_file call raised StopTransmission
Stopped == sf_outcome = "StopTransmission"
\* the finally block of save_file has run to its end
CleanedUp ==
    /\ sf_nones = SfTasks /\ sf_finished = SfTasks
    /\ sf_queue = <<>>
    /\ \A i \in 1..Len(sf_pool) : sf_pool[i].stopped

\* C25: after the progress callback raised StopTransmission nothing more is read
\* or queued (the reads, the chunk requests and the progress calls stay equal in
\* number), save_file returns no value and ends with StopTransmission once the
\* cleanup is over, and send_video, which was uploading the video, returns None
\* without having sent a SendMedia request
C25_StopTransmissionPropagates ==
    Stopped =>
        /\ sf_pc \in {"poison", "gather", "stop", "done"}
        /\ sf_trace.reads = Len(sf_trace.rpcs)
        /\ Len(sf_trace.rpcs) = Len(sf_trace.progress)
        /\ Len(sf_trace.progress) = sf_file_part
        /\ sf_trace.result.type = "none"
        /\ sf_pc = "done" => CleanedUp
        /\ sv_pc \in {"upload", "done"}
        /\ sv_requests = 0
        /\ sv_pc = "done" => sv_result = "None" /\ sf_pc = "done"

\* the callback stopped the upload of a video after its first chunk, with more
\* chunks to go, and send_video returned None
C25_Witness ==
    /\ Stopped
    /\ sv_pc = "done"
    /\ sv_result = "None"
    /\ sv_requests = 0
    /\ Len(sf_trace.rpcs) = 1
    /\ file_total_parts(sf_file_size) > 1
    /\ CleanedUp

\* ------------------------------------------------------------------ C26
\* the call has been answered in plain mode only: no FileCdnRedirect came
PlainMode(c) == gf_r[c] = None /\ gf_requests[c] # <<>>
IsRequest(q) == q.fn # "progress"
Requests(c) == SelectSeq(gf_requests[c], IsRequest)
\* the i-th request of the call asks for offset (i - 1) * limit
OffsetsInSteps(c) ==
    \A i \in 1..Len(Requests(c)) : Requests(c)[i].offset = (i - 1) * Limit
\* every request but the last was answered with a chunk of at least `least` bytes
RequestsOnlyAfter(c, least) ==
    \A i \in 1..(Len(Requests(c)) - 1) :
        Requests(c)[i].r = "File" /\ Requests(c)[i].bytes >= least
\* a plain download that returned the temp file ended on an answer of at most
\* `most` bytes
ReturnedAfter(c, most) ==
    gf_result[c] = "path" =>
        LET last == Requests(c)[Len(Requests(c))]
        IN  last.r = "File" /\ last.bytes <= most
PlainRequests(least, most) ==
    \A c \in Callers :
        PlainMode(c) =>
            OffsetsInSteps(c) /\ RequestsOnlyAfter(c, least) /\ ReturnedAfter(c, most)

\* C26 as stated: in plain mode the requests are for offsets 0, L, 2L, ... in
\* this order, and none is sent after a chunk shorter than L has been received
C26_PlainStopsAtShortChunk == PlainRequests(Limit, Limit - 1)

\* C26 as the code has it: in plain mode the requests are for offsets 0, L, 2L,
\* ... in this order; none is sent after an empty chunk, and a download that
\* returns the temp file has ended on an empty chunk: after a chunk that is
\* short but not empty the next offset is still requested
C26_PlainStopsAtEmptyChunk == PlainRequests(1, 0)

\* a plain download has returned after a short chunk and the request sent after it
C26_Witness ==
    \E c \in Callers :
        /\ PlainMode(c)
        /\ gf_result[c] = "path"
        /\ Len(Requests(c)) = 2
        /\ Requests(c)[1].bytes \in 1..(Limit - 1)
        /\ Requests(c)[2].offset = Limit

\* ------------------------------------------------------------------ C27
\* the call's i-th request and whether it is the latest one
Req(c, i) == gf_requests[c][i]
Latest(c, i) == i = Len(gf_requests[c])
\* the temp file holds what it held when request i was sent
NothingWrittenSince(c, i) == gf_file[c].exists /\ gf_file[c].size = Req(c, i).written

\* after a reupload-needed answer the re-upload is asked for next
ReuploadNeededThenReupload(c, i) ==
    IF Latest(c, i)
    THEN gf_pc[c] = "reupload" /\ NothingWrittenSince(c, i)
         /\ gf_offset[c] * Limit = Req(c, i).offset
    ELSE Req(c, i + 1).fn = "ReuploadCdnFile"
         /\ Req(c, i + 1).via = gf_session[c]
         /\ Req(c, i + 1).offset = Req(c, i).offset
         /\ Req(c, i + 1).written = Req(c, i).written
\* after a re-upload the chunk request is repeated at the same offset
ReuploadedThenSameOffset(c, i) ==
    /\ i > 1
    /\ Req(c, i - 1).r = "CdnFileReuploadNeeded"
    /\ IF Latest(c, i)
       THEN gf_pc[c] = "cdnget" /\ NothingWrittenSince(c, i)
            /\ gf_offset[c] * Limit = Req(c, i).offset
       ELSE Req(c, i + 1).fn = "GetCdnFile"
            /\ Req(c, i + 1).via = gf_cdn[c]
            /\ Req(c, i + 1).offset = Req(c, i - 1).offset
            /\ Req(c, i + 1).written = Req(c, i - 1).written
\* VolumeLocNotFound ends the download with the temp file as it was
VolumeLocNotFoundReturnsFile(c, i) ==
    /\ Latest(c, i)
    /\ gf_pc[c] = "done"
    /\ gf_result[c] = "path"
    /\ NothingWrittenSince(c, i)

\* C27: a reupload-needed answer of the CDN is followed by a re-upload request
\* sent by the media session of the call and, when that succeeds, by the chunk request at the same offset with the
\* temp file untouched and no progress call in between; when the re-upload
\* fails with VolumeLocNotFound get_file has returned the temp file with what
\* was written before
C27_ReuploadRepeatsSameOffset ==
    \A c \in Callers : \A i \in 1..Len(gf_requests[c]) :
        /\ Req(c, i).r = "CdnFileReuploadNeeded" => ReuploadNeededThenReupload(c, i)
        /\ Req(c, i).r = "Reuploaded" => ReuploadedThenSameOffset(c, i)
        /\ Req(c, i).r = "VolumeLocNotFound" => VolumeLocNotFoundReturnsFile(c, i)

\* a CDN download wrote a chunk, repeated a request after a re-upload and was
\* then ended by VolumeLocNotFound
C27_Witness ==
    \E c \in Callers :
        /\ gf_result[c] = "path"
        /\ gf_file[c].size > 0
        /\ Req(c, Len(gf_requests[c])).r = "VolumeLocNotFound"
        /\ \E i \in 2..(Len(gf_requests[c]) - 1) :
            /\ Req(c, i).r = "Reuploaded"
            /\ Req(c, i + 1).fn = "GetCdnFile"
            /\ Req(c, i + 1).offset = Req(c, i - 1).offset

\* ------------------------------------------------------------------ C28
\* get_file has ended and how: on StopTransmission raised by a progress callback
GfEnded(c) == gf_pc[c] = "done"
StoppedByCallback(c) ==
    /\ gf_requests[c] # <<>>
    /\ Req(c, Len(gf_requests[c])).fn = "progress"
    /\ Req(c, Len(gf_requests[c])).r = "StopTransmission"

\* C28: a call of get_file that ended on StopTransmission raised by a progress
\* callback has raised it to its caller; every other call has returned, either
\* the temp file or, after any exception, the empty result with the temp file
\* removed
C28_FailuresReturnEmptyStopPropagates ==
    \A c \in Callers :
        GfEnded(c) =>
            IF StoppedByCallback(c)
            THEN gf_result[c] = "raised"
            ELSE \/ gf_result[c] = "path" /\ gf_file[c].exists
                 \/ gf_result[c] = "empty" /\ ~gf_file[c].exists

\* ------------------------------------------------------------------ C29
\* the session a call sends upload.GetFile on, and the one it sends
\* upload.GetCdnFile on, once it has them
HasSession(c) == gf_session[c] # None
HasCdnSession(c) == gf_cdn[c] # None

\* C29: whatever downloads came before, a call fetches CDN chunks over a
\* session created with is_cdn=True and plain chunks over one created without,
\* and the two are different sessions
C29_CdnAndMediaSessionsApart ==
    \A c \in Callers :
        /\ HasSession(c) => ~sessions[gf_session[c]].is_cdn
        /\ HasCdnSession(c) =>
            /\ sessions[gf_cdn[c]].is_cdn
            /\ gf_cdn[c] # gf_session[c]

\* ------------------------------------------------------------------ C30
\* the job's gate has been set; the value its result cell must then hold
GateSet(j) == dl_jobs[j].done > 0
FinalValue(j) == IF dl_jobs[j].got = "tmp" /\ dl_jobs[j].moved THEN "final" ELSE NoPath
\* the job a worker dequeued last, if it dequeued one
LastJob(w) == dw_packet[w]
\* jobs whose gate is set
JobsDone == {j \in JobIds : GateSet(j)}
RECURSIVE Handled(_)
Handled(W) ==
    IF W = {} THEN 0
    ELSE LET w == CHOOSE x \in W : TRUE IN dw_handled[w] + Handled(W \ {w})

GateOnceAfterResult ==
    /\ \A j \in JobIds :
        /\ dl_jobs[j].done <= 1
        /\ IF GateSet(j) THEN dl_jobs[j].path = FinalValue(j) ELSE dl_jobs[j] = NoJob
    /\ \A w \in DWorkers :
        /\ dw_pc[w] = "busy" => ~GateSet(LastJob(w))
        /\ dw_pc[w] = "get" /\ LastJob(w) # None => GateSet(LastJob(w))
    /\ Cardinality(JobsDone) = Handled(DWorkers)
\* a worker has ended only by dequeuing the None that stop() put
EndsOnSentinelOnly ==
    \A w \in DWorkers : dw_pc[w] = "done" => LastJob(w) = None /\ stop_pc # "call"
\* once the gate is set, gate and result cell stay as they are
SetJobsFrozen == \A j \in JobIds : GateSet(j) => dl_jobs'[j] = dl_jobs[j]

\* C30: the gate of every job a worker has dequeued is set exactly once, when the
\* worker is done with the job, and the result cell then has its final value
\* for good: the final path when get_file returned a file and the move
\* succeeded, None otherwise; no job ends its worker, which is back at the queue
\* after each job and ends only on the None sentinel
C30_GateSetOnceWorkerSurvives ==
    /\ [](GateOnceAfterResult /\ EndsOnSentinelOnly)
    /\ [][SetJobsFrozen]_vars

\* one worker went through a job whose get_file raised, one whose get_file
\* returned "" and then delivered a file
C30_Witness ==
    \E w \in DWorkers : \E j, k \in JobIds :
        /\ dw_handled[w] = 2
        /\ dl_jobs[j].got \in {"raised", ""} /\ dl_jobs[j].done = 1 /\ dl_jobs[j].path = NoPath
        /\ dl_jobs[k].got = "tmp" /\ dl_jobs[k].done = 1 /\ dl_jobs[k].path = "final"
        /\ dw_pc[w] = "done"

\* ------------------------------------------------------------------ C31
\* the byte string has no run of more than 255 zero bytes
RunsUpTo255(b) ==
    \A k \in 1..(Len(b) - 255) : \E m \in k..(k + 255) : b[m] # 0
FileIdsEncoded == fi_pc \in {"encoded", "decoded"}

\* C31: decode(encode(b)) = b for every byte string b whose runs of zeros are at
\* most 255 bytes long, the packed (type, data-center, id, access hash) records
\* of every document type among them, and two different such byte strings have
\* different encodings
C31_FileIdRoundTrip ==
    /\ fi_pc = "decoded" =>
        \A i \in 1..2 : RunsUpTo255(fi_in[i]) => fi_out.dec[i] = Ok(fi_in[i])
    /\ FileIdsEncoded /\ RunsUpTo255(fi_in[1]) /\ RunsUpTo255(fi_in[2]) =>
        /\ fi_out.enc[1].error = "none"
        /\ fi_out.enc[2].error = "none"
        /\ fi_in[1] # fi_in[2] => fi_out.enc[1] # fi_out.enc[2]

\* a packed video id and a string with a run of 255 zeros went through encode
\* and decode
C31_Witness ==
    /\ fi_pc = "decoded"
    /\ fi_in[1] = pack_iiqq(4, 1, 1, -1)
    /\ fi_in[2] = <<1>> \o Zeros(255)
    /\ fi_out.dec[1].s = fi_in[1]
    /\ fi_out.dec[2].s = fi_in[2]
    /\ Len(fi_out.enc[2].s) < Len(fi_in[2])

\* ---------------------------------------------------------------- claim C32
\* send_message() was called with "me" or "self" and the request returned the
\* short-sent-message form
ShortSentToSelf ==
    /\ sm_pc \in {"returned", "raised"}
    /\ sm_chat_id.str \in {<<"s", "e", "l", "f">>, <<"m", "e">>}
    /\ sm_r.type = "UpdateShortSentMessage"
\* C32: send_message to "me" or "self" answered by the short-sent-message form
\* does not fail and returns a message whose id and date are the reply's, whose
\* chat type is "private" and whose chat id is the caller's own user id, whether
\* or not the caller's own peer is cached.
C32_ShortSentToSelfReturnsOwnChat ==
    ShortSentToSelf =>
        /\ sm_pc = "returned"
        /\ sm_result.type = "Message"
        /\ sm_result.message_id = sm_r.id
        /\ sm_result.date = sm_r.date
        /\ sm_result.chat_type = "private"
        /\ sm_result.chat_id = storage_user_id

\* ---------------------------------------------------------------- claim C33
\* start() is raising, or has raised, the error the authorization raised
RaisedOutOfAuthorization ==
    /\ start_pc \in {"session_stop", "raised"}
    /\ start_error \notin {"none", "Exception", "ConnectionError"}
NoWorkerTasks ==
    /\ \A w \in UWorkers : uw_pc[w] = "off"
    /\ \A w \in DWorkers : dw_pc[w] = "off"
\* C34: when start() has raised anything but "already started", the
\* authorization or the initial sync having raised, the error is the one that
\* was raised inside, is_started is false, the current primary session (on the
\* data center the storage names, the migrated one after a migration) is
\* stopped, and no worker task was created nor the dispatcher started; a later
\* start() is refused as already started only after a start() that succeeded.
C34_FailedStartLeavesClientStopped ==
    /\ (start_pc = "raised" /\ start_error # "ConnectionError") =>
          /\ ~is_started
          /\ ~self_session.started
          /\ au_self.session_dc = storage_dc_id
          /\ NoWorkerTasks
          /\ start_error # "Exception" => start_error = au_error
    /\ (start_pc = "raised" /\ start_error = "ConnectionError") =>
          /\ is_started
          /\ ~NoWorkerTasks

\* the authorization migrated to data center 2 and returned, then the initial
\* sync raised and start() with it
C34_Witness ==
    /\ start_pc = "raised"
    /\ start_error = "Exception"
    /\ storage_dc_id = 2
    /\ storage_user_id # None
    /\ au_log.stopped > 0
    /\ self_session.created

\* ---------------------------------------------------------------- claim C35
\* the positions of the queue that hold None
PoisonAt == {i \in 1..Len(sf_queue) : sf_queue[i] = Poison}
\* the chunk requests put so far that no worker task has taken yet
ChunksQueued == Len(sf_queue) - Cardinality(PoisonAt)
\* C35: when save_file has returned or raised, every chunk request it queued has
\* been taken by a worker task and that task's send has ended; on the way, no
\* chunk is queued behind a None, every worker task that has returned took
\* exactly one None (the Nones put are those still queued and one per returned
\* task), and no task has returned while a chunk is still queued.
C35_ChunksSentBeforeWorkersStop ==
    /\ (sf_pc = "done" /\ sf_outcome # "ValueError") =>
          /\ ChunksQueued = 0
          /\ sf_sending = 0
    /\ \A i \in PoisonAt : \A j \in i..Len(sf_queue) : j \in PoisonAt
    /\ sf_nones = sf_finished + Cardinality(PoisonAt)
    /\ sf_finished > 0 => ChunksQueued = 0
    /\ Len(sf_trace.rpcs) >= ChunksQueued + sf_sending

\* an upload of two chunks or more has ended after a send of a worker raised
C35_Witness ==
    /\ sf_pc = "done"
    /\ Len(sf_trace.rpcs) >= 2
    /\ sf_send_failed
    /\ sf_finished = NumWorkers(SfBig)

\* ---------------------------------------------------------------- claim C36
\* C36: save_file returns an uploaded-file descriptor (InputFile or
\* InputFileBig) only if no send of a chunk by a worker task raised.
C36_DescriptorOnlyIfAllSendsSucceeded ==
    (sf_pc = "done" /\ sf_outcome \in {"InputFile", "InputFileBig"}) => ~sf_send_failed

\* ---------------------------------------------------------------- claim C37
\* the sessions cached for a data center other than the primary one that were
\* created to download with an imported authorization
ForeignMediaSessions ==
    {media_sessions[d] : d \in {x \in DCs : x # storage_dc_id /\ media_sessions[x] # None}}
\* C37: whenever no call is inside the locked set-up, every session cached in
\* media_sessions for a data center other than the primary one (and not a CDN
\* session) has imported the exported authorization: a session whose start or
\* ImportAuthorization failed is not left cached.
C37_CachedForeignSessionsAuthorized ==
    media_sessions_lock = None =>
        \A s \in ForeignMediaSessions : ~sessions[s].is_cdn => sessions[s].authorized

\* ---------------------------------------------------------------- claim C38
\* C38: every byte of a decrypted CDN chunk that get_file writes to the temp
\* file lies in a sub-range whose SHA-256 was compared with a hash of the hash
\* list returned for the chunk's offset and found equal; a chunk is never
\* written when that list is empty or covers only part of it.
C38_WrittenCdnBytesVerified ==
    \A c \in Callers : gf_unverified[c] = 0

\* ---------------------------------------------------------------- claim C39
\* call k has passed the check of is_started and has not ended
Proceeding(k) ==
    o_pc[k] \in {"load_session", "session_start", "try", "session_stop", "dispatcher_start"}
\* C39: two overlapping start() calls on the same client cannot both proceed: no
\* two calls are past the check of is_started at once, at most one of them
\* constructs the primary session while the other is running, and the worker
\* tasks are created by one call only.
C39_OverlappingStartsExclude ==
    \A j, k \in StartCallers :
        j # k =>
            /\ ~(Proceeding(j) /\ Proceeding(k))
            /\ ~(o_pooled[j] /\ o_pooled[k])

\* ---------------------------------------------------------------------------
\* send_video.py 161-185: the `while True` loop around SendMedia
\* ---------------------------------------------------------------------------

\* C40: once a SendMedia request is answered without FilePartMissing,
\* send_video returns and sends no further SendMedia request, also when the
\* response carries no new-message update.  A step that answers a SendMedia
\* request (sv_requests grows) leaves the loop (the call has ended) or, on
\* FilePartMissing, goes on to re-upload the part ("resume"); it never goes
\* straight back to sending.
C40_SendVideoEndsAfterAnsweredSend ==
    [][(sv_pc = "send" /\ sv_requests' = sv_requests + 1)
          => sv_pc' \in {"done", "resume"}]_vars

====
